---- MODULE Spec2Model ----
(***************************************************************************)
(* Model of the BOE ingestion pipeline of backend-ml:                      *)
(*   boe_ingestion/services/api_client.py      (Source Client)             *)
(*   boe_ingestion/services/parsing_service.py (Text Extractor)            *)
(*   utils/io_helpers.py, boe_ingestion/orchestrator.py                    *)
(*   data_processing/chunker.py, rag_agent/service.py                      *)
(*   boe_ingestion/router.py                                               *)
(* The specifications share the variables:                                 *)
(*   SpecLeaf  applies one leaf operation to one input drawn in Init;      *)
(*   Spec      runs ingest_boe_data, one run after the other;              *)
(*   SpecChunk applies process_document to one document;                   *)
(*   SpecChat  runs one chat_stream generator against its consumer;        *)
(*   SpecConcurrent runs two ingest_boe_data tasks interleaved at awaits;  *)
(*   SpecTrigger    answers one POST /ingest/boe request.                  *)
(***************************************************************************)
EXTENDS Integers, Sequences, FiniteSets, TLC

VARIABLES
    leafOp,             \* SpecLeaf: the leaf operation under test
    leafArg,            \* SpecLeaf: its input
    leafRet,            \* SpecLeaf: its outcome, NotCalled before the call
    source_manifest,    \* the remote catalog: date string -> response
    source_xml,         \* the remote documents: identifier -> response
    OUTPUT_FILE,        \* raw_data.jsonl: the sequence of its lines
    PROCESSED_IDS_FILE, \* processed_ids.txt: whether it exists, and its lines
    runs,               \* number of invocations of ingest_boe_data so far
    ended,              \* how the earlier invocations ended, oldest first
    task,               \* per task: the locals of its ingest_boe_data call
    chat                \* SpecChat: the chat_stream generator and its dependencies

leafVars == <<leafOp, leafArg, leafRet, chat>>
orchVars == <<source_manifest, source_xml, OUTPUT_FILE, PROCESSED_IDS_FILE,
              runs, ended, task>>
vars == <<leafOp, leafArg, leafRet, source_manifest, source_xml, OUTPUT_FILE,
          PROCESSED_IDS_FILE, runs, ended, task, chat>>

(***************************************************************************)
(* Bounds                                                                  *)
(***************************************************************************)
\* number of distinct document identifiers the modelled source knows
NumIds == 2
\* longest list an `item` field holds in the enumerated manifests
MaxItems == 2
\* number of consecutive calendar days the modelled source publishes
NumDays == 2
\* number of invocations of ingest_boe_data in one behaviour
MaxRuns == 2
\* the ingestion tasks; Spec runs the first one only, one run after the other
Tasks == {"task1", "task2"}

IdOf(n) == CASE n = 1 -> "BOE-A-1" [] n = 2 -> "BOE-A-2" [] n = 3 -> "BOE-A-3" [] OTHER -> "BOE-A-4"
Ids == {IdOf(n) : n \in 1..NumIds}

(***************************************************************************)
(* Generic helpers                                                         *)
(***************************************************************************)
Range(q) == {q[i] : i \in DOMAIN q}
NoDup(q) == \A i, j \in DOMAIN q : q[i] = q[j] => i = j
\* every sequence that lists each element of S exactly once
Orderings(S) == {q \in [1..Cardinality(S) -> S] : Range(q) = S}
SetToSeq(S) == CHOOSE q \in Orderings(S) : TRUE
\* all sequences over S of length lo..hi
SeqsOf(S, lo, hi) == UNION {[1..n -> S] : n \in lo..hi}

(***************************************************************************)
(* JSON values as Python sees them after response.json()                   *)
(***************************************************************************)
Null == [t |-> "null"]
Str(s) == [t |-> "str", s |-> s]
Num(n) == [t |-> "num", n |-> n]
List(q) == [t |-> "list", q |-> q]
Dict(f) == [t |-> "dict", f |-> f]
EmptyDict == Dict(<<>>)
EmptyList == List(<<>>)

\* Python truthiness: `if not item_data`, `if doc_id and url_xml`
Truthy(v) ==
    CASE v.t = "null" -> FALSE
      [] v.t = "str" -> v.s # ""
      [] v.t = "num" -> v.n # 0
      [] v.t = "list" -> v.q # <<>>
      [] v.t = "dict" -> DOMAIN v.f # {}

\* an outcome of a Python expression or function: a value, or an exception
\* that leaves the function
Ok(v) == [raised |-> FALSE, v |-> v]
Raise == [raised |-> TRUE, v |-> <<>>]

\* obj.get(key, default): AttributeError unless obj is a dict
get(obj, key, default) ==
    IF obj.t # "dict" THEN Raise
    ELSE IF key \in DOMAIN obj.f THEN Ok(obj.f[key]) ELSE Ok(default)

\* `for x in coll`: the elements of a list, the characters of a str (each a
\* str; a non-empty str is given as one such element), the keys of a dict;
\* TypeError for None and numbers
iter(coll) ==
    CASE coll.t = "list" -> Ok(coll.q)
      [] coll.t = "str" -> Ok(IF coll.s = "" THEN <<>> ELSE <<Str(coll.s)>>)
      [] coll.t = "dict" -> Ok([i \in 1..Cardinality(DOMAIN coll.f) |->
                                 Str(SetToSeq(DOMAIN coll.f)[i])])
      [] OTHER -> Raise

hashable(v) == v.t \notin {"list", "dict"}

(***************************************************************************)
(* api_client.fetch_summary_ids                                            *)
(***************************************************************************)
\* lines 73-77: normalise `item` to a list
items_to_process(item_data) ==
    CASE item_data.t = "list" -> item_data.q
      [] item_data.t = "dict" -> <<item_data>>
      [] OTHER -> <<>>

\* lines 80-85: one item; get cannot raise here, item is a dict
item_ids(item) ==
    IF item.t # "dict" THEN <<>>
    ELSE LET doc_id == get(item, "identificador", Null).v
             url_xml == get(item, "url_xml", Null).v
         IN IF Truthy(doc_id) /\ Truthy(url_xml) THEN <<doc_id>> ELSE <<>>

RECURSIVE for_item(_)
\* lines 79-85: for item in items_to_process
for_item(items) ==
    IF items = <<>> THEN <<>>
    ELSE item_ids(Head(items)) \o for_item(Tail(items))

\* lines 65-85: the body of the epigrafe loop
epigrafe_ids(epigrafe) ==
    IF epigrafe.t # "dict" THEN Ok(<<>>)
    ELSE LET item_data == get(epigrafe, "item", Null).v
         IN IF ~Truthy(item_data) THEN Ok(<<>>)
            ELSE Ok(for_item(items_to_process(item_data)))

\* the accumulation all_doc_ids.append over a loop whose body may raise
RECURSIVE for_epigrafe(_)
for_epigrafe(q) ==
    IF q = <<>> THEN Ok(<<>>)
    ELSE LET h == epigrafe_ids(Head(q))
             r == for_epigrafe(Tail(q))
         IN IF h.raised \/ r.raised THEN Raise ELSE Ok(h.v \o r.v)

\* lines 60-64: the body of the departamento loop
departamento_ids(departamento) ==
    IF departamento.t # "dict" THEN Ok(<<>>)
    ELSE LET it == iter(get(departamento, "epigrafe", EmptyList).v)
         IN IF it.raised THEN Raise ELSE for_epigrafe(it.v)

RECURSIVE for_departamento(_)
for_departamento(q) ==
    IF q = <<>> THEN Ok(<<>>)
    ELSE LET h == departamento_ids(Head(q))
         IN IF h.raised THEN Raise
            ELSE LET r == for_departamento(Tail(q))
                 IN IF r.raised THEN Raise ELSE Ok(h.v \o r.v)

\* line 55: codigo_seccion not in ["1", "3"]
SeccionCodes == {"1", "3"}
\* mutant: section "3" dropped from the filter
seccion_allowed_only1(codigo_seccion) ==
    codigo_seccion.t = "str" /\ codigo_seccion.s = "1"

seccion_allowed(codigo_seccion) ==
    codigo_seccion.t = "str" /\ codigo_seccion.s \in SeccionCodes

\* lines 50-59: the body of the seccion loop
seccion_ids(seccion) ==
    IF seccion.t # "dict" THEN Ok(<<>>)
    ELSE IF ~seccion_allowed(get(seccion, "codigo", Null).v) THEN Ok(<<>>)
    ELSE LET it == iter(get(seccion, "departamento", EmptyList).v)
         IN IF it.raised THEN Raise ELSE for_departamento(it.v)

RECURSIVE for_seccion(_)
for_seccion(q) ==
    IF q = <<>> THEN Ok(<<>>)
    ELSE LET h == seccion_ids(Head(q))
         IN IF h.raised THEN Raise
            ELSE LET r == for_seccion(Tail(q))
                 IN IF r.raised THEN Raise ELSE Ok(h.v \o r.v)

\* lines 45-49: the body of the diario loop
diario_ids(diario) ==
    IF diario.t # "dict" THEN Ok(<<>>)
    ELSE LET it == iter(get(diario, "seccion", EmptyList).v)
         IN IF it.raised THEN Raise ELSE for_seccion(it.v)

RECURSIVE for_diario(_)
for_diario(q) ==
    IF q = <<>> THEN Ok(<<>>)
    ELSE LET h == diario_ids(Head(q))
         IN IF h.raised THEN Raise
            ELSE LET r == for_diario(Tail(q))
                 IN IF r.raised THEN Raise ELSE Ok(h.v \o r.v)

\* lines 41-85: all_doc_ids of a decoded body, or the exception that escapes
all_doc_ids(body) ==
    LET data == get(body, "data", EmptyDict)
    IN IF data.raised THEN Raise
       ELSE LET sumario == get(data.v, "sumario", EmptyDict)
            IN IF sumario.raised THEN Raise
               ELSE LET diario_list == get(sumario.v, "diario", EmptyList)
                    IN IF diario_list.raised THEN Raise
                       ELSE LET it == iter(diario_list.v)
                            IN IF it.raised THEN Raise ELSE for_diario(it.v)

\* line 103: list(set(all_doc_ids)): each element once, in an order the hash
\* seed decides; TypeError for an unhashable element
list_set(q) ==
    IF \E i \in DOMAIN q : ~hashable(q[i]) THEN {Raise}
    ELSE {Ok(o) : o \in Orderings(Range(q))}

\* HTTP responses as the client sees them
NetErr == [kind |-> "neterr", status |-> 0, json |-> FALSE, body |-> Null]
Unexpected == [kind |-> "unexpected", status |-> 0, json |-> FALSE, body |-> Null]
Http(status) == [kind |-> "http", status |-> status, json |-> FALSE, body |-> Null]
HttpJson(body) == [kind |-> "http", status |-> 200, json |-> TRUE, body |-> body]
HttpText(body) == [kind |-> "http", status |-> 200, json |-> FALSE, body |-> body]

\* the set of outcomes of fetch_summary_ids for the response client.get gives
fetch_summary_ids(response) ==
    IF response.kind = "neterr" THEN {Ok(<<>>)}          \* httpx.RequestError
    ELSE IF response.status >= 400 THEN {Ok(<<>>)}       \* HTTPStatusError
    ELSE IF ~response.json THEN {Ok(<<>>)}               \* json.JSONDecodeError
    ELSE LET ids == all_doc_ids(response.body)
         IN IF ids.raised THEN {Raise} ELSE list_set(ids.v)

(***************************************************************************)
(* api_client.fetch_document_xml                                           *)
(***************************************************************************)
None == [none |-> TRUE]
\* "unexpected" is an exception that is neither HTTPStatusError nor
\* RequestError (httpx.InvalidURL for an identifier with a control character)
\* mutant: the handler of HTTPStatusError is missing
fetch_document_xml_unhandled(response) ==
    IF response.kind = "unexpected" THEN Raise
    ELSE IF response.kind = "neterr" THEN Ok(None)
    ELSE IF response.status = 404 THEN Ok(None)
    ELSE IF response.status >= 400 THEN Raise
    ELSE Ok(response.body)

fetch_document_xml(response) ==
    IF response.kind = "unexpected" THEN Raise
    ELSE IF response.kind = "neterr" THEN Ok(None)
    ELSE IF response.status = 404 THEN Ok(None)
    ELSE IF response.status >= 400 THEN Ok(None)
    ELSE Ok(response.body)

(***************************************************************************)
(* Markup as BeautifulSoup(xml_content, 'lxml-xml') gives it: a sequence   *)
(* of top-level nodes; a text is a sequence of one-character strings        *)
(***************************************************************************)
Elem(tag, kids) == [tag |-> tag, kids |-> kids, text |-> <<>>]
Text(s) == [tag |-> "#text", kids |-> <<>>, text |-> s]
\* xml_content the parser reads (lxml recovers from unclosed tags and from
\* the empty string with a smaller or empty tree), or on which it raises
Markup(soup) == [empty |-> FALSE, parses |-> TRUE, soup |-> soup]
Unparseable == [empty |-> FALSE, parses |-> FALSE, soup |-> <<>>]
\* the empty string
EmptyText == [empty |-> TRUE, parses |-> TRUE, soup |-> <<>>]

IsSpace(c) == c \in {" ", "\n"}

RECURSIVE lstrip(_)
lstrip(s) == IF s # <<>> /\ IsSpace(Head(s)) THEN lstrip(Tail(s)) ELSE s

RECURSIVE rstrip(_)
rstrip(s) ==
    IF s # <<>> /\ IsSpace(s[Len(s)]) THEN rstrip(SubSeq(s, 1, Len(s) - 1)) ELSE s

\* str.strip()
strip(s) == rstrip(lstrip(s))

RECURSIVE join(_, _)
\* sep.join(parts)
join(parts, sep) ==
    IF parts = <<>> THEN <<>>
    ELSE IF Len(parts) = 1 THEN parts[1]
    ELSE parts[1] \o sep \o join(Tail(parts), sep)

RECURSIVE split(_)
\* str.split(): the maximal runs of non-whitespace characters
split(s) ==
    LET t == lstrip(s)
    IN IF t = <<>> THEN <<>>
       ELSE LET n == IF \E i \in DOMAIN t : IsSpace(t[i])
                     THEN (CHOOSE i \in DOMAIN t :
                              IsSpace(t[i]) /\ \A j \in 1..(i - 1) : ~IsSpace(t[j])) - 1
                     ELSE Len(t)
            IN <<SubSeq(t, 1, n)>> \o split(SubSeq(t, n + 1, Len(t)))

RECURSIVE stripped_strings(_)
\* the descendant strings of a sequence of nodes, in document order, each
\* stripped, the empty ones dropped
stripped_strings(nodes) ==
    IF nodes = <<>> THEN <<>>
    ELSE LET n == Head(nodes)
             here == IF n.tag = "#text"
                     THEN (IF strip(n.text) = <<>> THEN <<>> ELSE <<strip(n.text)>>)
                     ELSE stripped_strings(n.kids)
         IN here \o stripped_strings(Tail(nodes))

\* tag.get_text(strip=True)
get_text(node) == join(stripped_strings(<<node>>), <<>>)

RECURSIVE find_all(_, _)
\* the descendants named `name` among `nodes` and below, in document order
find_all(nodes, name) ==
    IF nodes = <<>> THEN <<>>
    ELSE LET n == Head(nodes)
         IN (IF n.tag = name THEN <<n>> ELSE <<>>)
            \o find_all(n.kids, name) \o find_all(Tail(nodes), name)

RECURSIVE select_child(_, _, _, _)
\* soup.select_one('parent > child'): the first element in document order
\* named `child` whose parent is named `parent`; <<>> when there is none
select_child(nodes, under, parent, child) ==
    IF nodes = <<>> THEN <<>>
    ELSE LET n == Head(nodes)
         IN IF n.tag = child /\ under = parent THEN <<n>>
            ELSE LET below == select_child(n.kids, n.tag, parent, child)
                 IN IF below # <<>> THEN below
                    ELSE select_child(Tail(nodes), under, parent, child)

\* mutant: the descendant selector 'documento texto' (here: any texto)
select_one_descendant(soup) ==
    IF find_all(soup, "texto") = <<>> THEN <<>> ELSE <<find_all(soup, "texto")[1]>>

select_one(soup) == select_child(soup, "[document]", "documento", "texto")

RECURSIVE non_empty(_)
non_empty(lines) ==
    IF lines = <<>> THEN <<>>
    ELSE (IF Head(lines) = <<>> THEN <<>> ELSE <<Head(lines)>>) \o non_empty(Tail(lines))

(***************************************************************************)
(* parsing_service.parse_legal_text                                        *)
(***************************************************************************)
parse_legal_text(xml_content) ==
    IF ~xml_content.parses THEN <<>>                      \* except Exception
    ELSE LET found == select_one(xml_content.soup)
         IN IF found = <<>> THEN <<>>
            ELSE LET text_element == found[1]
                     all_paragraphs == find_all(text_element.kids, "p")
                 IN IF all_paragraphs = <<>>
                    THEN join(split(get_text(text_element)), <<" ">>)
                    ELSE LET text_lines == [i \in DOMAIN all_paragraphs |->
                                               get_text(all_paragraphs[i])]
                         IN join(non_empty(text_lines), <<"\n">>)

(***************************************************************************)
(* Inputs of the leaf operations                                           *)
(***************************************************************************)
Item(id) == Dict([identificador |-> Str(id), url_xml |-> Str("u")])
Epigrafe(item) == Dict([nombre |-> Str("e"), item |-> item])
Departamento(epigrafes) == Dict([epigrafe |-> List(epigrafes)])
Seccion(codigo, departamentos) ==
    Dict([codigo |-> Str(codigo), departamento |-> List(departamentos)])
Diario(secciones) == Dict([seccion |-> List(secciones)])
Body(diarios) ==
    Dict([data |-> Dict([sumario |-> Dict([diario |-> List(diarios)])])])

\* items: complete ones, one without url_xml, one without identificador
ItemChoices ==
    {Item(i) : i \in Ids}
    \cup {Dict([identificador |-> Str(IdOf(1))]), Dict([url_xml |-> Str("u")])}
\* an `item` field: a single object, or a list of objects
ItemFields == ItemChoices \cup {List(q) : q \in SeqsOf(ItemChoices, 0, MaxItems)}
SmallItemFields == ItemChoices \cup {List(<<i>>) : i \in ItemChoices}
Codigos == {"1", "2", "3"}
JoinLevels == {"diario", "seccion", "departamento", "epigrafe"}

\* a well-formed manifest with two `item` fields that meet at `level`
TwoLeaves(level, c1, f1, c2, f2) ==
    CASE level = "diario" ->
           Body(<<Diario(<<Seccion(c1, <<Departamento(<<Epigrafe(f1)>>)>>)>>),
                  Diario(<<Seccion(c2, <<Departamento(<<Epigrafe(f2)>>)>>)>>)>>)
      [] level = "seccion" ->
           Body(<<Diario(<<Seccion(c1, <<Departamento(<<Epigrafe(f1)>>)>>),
                           Seccion(c2, <<Departamento(<<Epigrafe(f2)>>)>>)>>)>>)
      [] level = "departamento" ->
           Body(<<Diario(<<Seccion(c1, <<Departamento(<<Epigrafe(f1)>>),
                                         Departamento(<<Epigrafe(f2)>>)>>)>>)>>)
      [] level = "epigrafe" ->
           Body(<<Diario(<<Seccion(c1, <<Departamento(<<Epigrafe(f1),
                                                        Epigrafe(f2)>>)>>)>>)>>)

WellFormedManifests ==
    {TwoLeaves(l, c1, f1, c2, f2) :
        l \in JoinLevels, c1 \in Codigos, f1 \in ItemFields,
        c2 \in Codigos, f2 \in SmallItemFields}
    \cup {Body(<<>>), Dict(<<>>)}

\* values of the wrong shape
Bads == {Null, Str("x"), Num(7), List(<<Str("x")>>), Dict([x |-> Str("y")])}
FaultLevels == 1..14
GoodEpigrafe == Epigrafe(Item(IdOf(1)))
GoodDepartamento == Departamento(<<GoodEpigrafe>>)
GoodSeccion == Seccion("1", <<GoodDepartamento>>)
GoodDiario == Diario(<<GoodSeccion>>)

\* a manifest whose node at `level` is `bad`, next to a well-formed sibling
\* wherever the level has siblings
MalformedAt(level, bad) ==
    CASE level = 1 -> bad
      [] level = 2 -> Dict([data |-> bad])
      [] level = 3 -> Dict([data |-> Dict([sumario |-> bad])])
      [] level = 4 -> Dict([data |-> Dict([sumario |-> Dict([diario |-> bad])])])
      [] level = 5 -> Body(<<bad, GoodDiario>>)
      [] level = 6 -> Body(<<Dict([seccion |-> bad]), GoodDiario>>)
      [] level = 7 -> Body(<<Diario(<<bad, GoodSeccion>>)>>)
      [] level = 8 -> Body(<<Diario(<<Dict([codigo |-> Str("3"), departamento |-> bad]),
                                    GoodSeccion>>)>>)
      [] level = 9 -> Body(<<Diario(<<Seccion("3", <<bad, GoodDepartamento>>)>>)>>)
      [] level = 10 -> Body(<<Diario(<<Seccion("3", <<Dict([epigrafe |-> bad]),
                                                      GoodDepartamento>>)>>)>>)
      [] level = 11 -> Body(<<Diario(<<Seccion("3", <<Departamento(<<bad,
                                                      GoodEpigrafe>>)>>)>>)>>)
      [] level = 12 -> Body(<<Diario(<<Seccion("3", <<Departamento(<<Epigrafe(bad),
                                                      GoodEpigrafe>>)>>)>>)>>)
      [] level = 13 -> Body(<<Diario(<<Seccion("3", <<Departamento(<<
                              Epigrafe(List(<<bad, Item(IdOf(1))>>))>>)>>)>>)>>)
      [] level = 14 -> Body(<<Diario(<<Seccion("3", <<Departamento(<<
                              Epigrafe(List(<<Dict([identificador |-> bad,
                                                    url_xml |-> Str("u")]),
                                              Item(IdOf(1))>>))>>)>>)>>)>>)

MalformedManifests == {MalformedAt(l, b) : l \in FaultLevels, b \in Bads}

SummaryResponses ==
    {NetErr, Http(404), Http(500), Http(503), HttpText(Null)}
    \cup {HttpJson(m) : m \in WellFormedManifests \cup MalformedManifests}

P(s) == Elem("p", <<Text(s)>>)
TextoKids ==
    {P(<<"a">>), P(<<" ">>), P(<<" ", "b", " ">>), Text(<<"a", " ", "\n", "b">>)}
TextoBlocks == {Elem("texto", k) : k \in SeqsOf(TextoKids, 0, 2)}
Analisis == Elem("analisis", <<Elem("texto", <<P(<<"x">>)>>)>>)
RootKids == TextoBlocks \cup {Analisis}
XmlContents ==
    {Markup(<<Elem(root, k)>>) :
        root \in {"documento", "xml"}, k \in SeqsOf(RootKids, 0, 2)}
    \cup {Unparseable, EmptyText}

DocumentResponses ==
    {NetErr, Unexpected, Http(404), Http(500), Http(503)}
    \cup {HttpText(x) : x \in {EmptyText, Unparseable,
                               Markup(<<Elem("documento", <<Elem("texto", <<P(<<"a">>)>>)>>)>>)}}

(***************************************************************************)
(* Dates: datetime.strptime(s, "%Y%m%d"), strftime("%Y%m%d"), timedelta    *)
(* A date string is a sequence of one-character strings.                   *)
(***************************************************************************)
DigitChars == <<"0", "1", "2", "3", "4", "5", "6", "7", "8", "9">>
IsDigit(c) == c \in Range(DigitChars)
DigitVal(c) == (CHOOSE n \in 1..10 : DigitChars[n] = c) - 1
DigitChar(n) == DigitChars[n + 1]
RECURSIVE int(_)
\* int(s) for a string of digits
int(s) == IF s = <<>> THEN 0 ELSE 10 * int(SubSeq(s, 1, Len(s) - 1)) + DigitVal(s[Len(s)])

Date(y, m, d) == [y |-> y, m |-> m, d |-> d]
NoDate == Date(0, 0, 0)
IsLeap(y) == (y % 4 = 0 /\ y % 100 # 0) \/ y % 400 = 0
DaysInMonth(y, m) ==
    CASE m \in {1, 3, 5, 7, 8, 10, 12} -> 31
      [] m \in {4, 6, 9, 11} -> 30
      [] OTHER -> IF IsLeap(y) THEN 29 ELSE 28

\* the regular expression of %m: 1[0-2]|0[1-9]|[1-9]; the lengths of the
\* alternatives that match a prefix of r, in the order the engine tries them
month_alternatives(r) ==
    (IF Len(r) >= 2 /\ ( (r[1] = "1" /\ r[2] \in {"0", "1", "2"})
                       \/ (r[1] = "0" /\ IsDigit(r[2]) /\ r[2] # "0") )
     THEN <<2>> ELSE <<>>)
    \o (IF Len(r) >= 1 /\ IsDigit(r[1]) /\ r[1] # "0" THEN <<1>> ELSE <<>>)

\* the regular expression of %d: 3[0-1]|[1-2]\d|0[1-9]|[1-9]| [1-9]; the
\* length of the first alternative that matches a prefix of r, 0 for none
day_match(r) ==
    IF Len(r) >= 2 /\ ( (r[1] = "3" /\ r[2] \in {"0", "1"})
                      \/ (r[1] \in {"1", "2"} /\ IsDigit(r[2]))
                      \/ (r[1] = "0" /\ IsDigit(r[2]) /\ r[2] # "0") )
    THEN 2
    ELSE IF Len(r) >= 1 /\ IsDigit(r[1]) /\ r[1] # "0" THEN 1
    ELSE IF Len(r) >= 2 /\ r[1] = " " /\ IsDigit(r[2]) /\ r[2] # "0" THEN 2
    ELSE 0

\* datetime.strptime(s, "%Y%m%d"): the date, or ok = FALSE for ValueError
strptime(s) ==
    LET bad == [ok |-> FALSE, date |-> NoDate]
    IN IF Len(s) < 4 \/ \E i \in 1..4 : ~IsDigit(s[i]) THEN bad
       ELSE LET r == SubSeq(s, 5, Len(s))
                ms == month_alternatives(r)
                fit == {i \in DOMAIN ms : day_match(SubSeq(r, ms[i] + 1, Len(r))) > 0}
            IN IF fit = {} THEN bad                      \* does not match format
               ELSE LET i == CHOOSE k \in fit : \A j \in fit : k <= j
                        ml == ms[i]
                        dl == day_match(SubSeq(r, ml + 1, Len(r)))
                        y == int(SubSeq(s, 1, 4))
                        m == int(SubSeq(r, 1, ml))
                        ds == SubSeq(r, ml + 1, ml + dl)
                        d == int(IF ds[1] = " " THEN Tail(ds) ELSE ds)
                    IN IF 4 + ml + dl # Len(s) THEN bad  \* unconverted data remains
                       ELSE IF y < 1 \/ d > DaysInMonth(y, m) THEN bad
                       ELSE [ok |-> TRUE, date |-> Date(y, m, d)]

\* current_date.strftime("%Y%m%d")
strftime(dt) ==
    << DigitChar(dt.y \div 1000), DigitChar((dt.y \div 100) % 10),
       DigitChar((dt.y \div 10) % 10), DigitChar(dt.y % 10),
       DigitChar(dt.m \div 10), DigitChar(dt.m % 10),
       DigitChar(dt.d \div 10), DigitChar(dt.d % 10) >>

\* mutant: the day of the month is increased, the month never ends
next_day_same_month(dt) == Date(dt.y, dt.m, dt.d + 1)

\* current_date + timedelta(days=1)
next_day(dt) ==
    IF dt.d < DaysInMonth(dt.y, dt.m) THEN Date(dt.y, dt.m, dt.d + 1)
    ELSE IF dt.m < 12 THEN Date(dt.y, dt.m + 1, 1)
    ELSE Date(dt.y + 1, 1, 1)

\* mutant: only the day of the month is compared
date_le_day_only(a, b) == a.d <= b.d

\* current_date <= end_date
date_le(a, b) ==
    \/ a.y < b.y
    \/ a.y = b.y /\ a.m < b.m
    \/ a.y = b.y /\ a.m = b.m /\ a.d <= b.d

(***************************************************************************)
(* The modelled source and the inputs of ingest_boe_data                   *)
(***************************************************************************)
FirstDay == Date(2023, 2, 28)
RECURSIVE DayNo(_)
DayNo(k) == IF k = 0 THEN FirstDay ELSE next_day(DayNo(k - 1))
SweepDates == {strftime(DayNo(k)) : k \in 0..(NumDays - 1)}

\* date strings given to ingest_boe_data: the published days, a day that is
\* not in the calendar, a 7-character string, a string with separators
DateInputs ==
    SweepDates
    \cup { <<"2", "0", "2", "3", "0", "2", "2", "9">>,
           <<"2", "0", "2", "3", "0", "3", "1">>,
           <<"2", "0", "2", "3", "-", "0", "3", "-", "0", "1">> }

Manifest(ids) ==
    Body(<<Diario(<<Seccion("1", <<Departamento(<<Epigrafe(
        List([i \in 1..Cardinality(ids) |-> Item(SetToSeq(ids)[i])]))>>)>>)>>)>>)
ManifestChoices ==
    {Http(404), HttpJson(Manifest({IdOf(1)})), HttpJson(Manifest(Ids)),
     HttpJson(MalformedAt(6, Null))}

GoodDocument ==
    Markup(<<Elem("documento", <<Analisis, Elem("texto", <<P(<<"a">>)>>)>>)>>)
NoTextDocument == Markup(<<Elem("documento", <<Analisis>>)>>)
ContentChoices ==
    {Http(404), Unexpected, HttpText(GoodDocument), HttpText(NoTextDocument)}

(***************************************************************************)
(* utils/io_helpers.py and orchestrator.load_processed_ids                 *)
(***************************************************************************)
\* the outcomes of save_to_jsonl: the line is appended, or open/write raises
\* IOError, which is logged and swallowed
save_to_jsonl(file, data) == {Append(file, data), file}

\* the outcomes of save_processed_id: likewise
save_processed_id(file, doc_id) ==
    {[exists |-> TRUE, lines |-> Append(file.lines, doc_id)], file}

\* the outcomes of load_processed_ids: the set of the lines; the empty set
\* when the file is missing or open/read raises IOError; an exception that
\* is no IOError (UnicodeDecodeError for bytes that are not UTF-8) escapes
load_processed_ids(file) ==
    IF ~file.exists THEN {Ok({})} ELSE {Ok(Range(file.lines)), Ok({}), [raised |-> TRUE, v |-> {}]}

(***************************************************************************)
(* orchestrator.ingest_boe_data                                            *)
(***************************************************************************)
Event(ev, id, date, total, known) ==
    [ev |-> ev, id |-> id, date |-> date, total |-> total, known |-> known]
GetSummary(date_str) == Event("get_summary", "", date_str, 0, 0)
GetXml(doc_id) == Event("get_xml", doc_id, <<>>, 0, 0)
WroteRaw(doc_id) == Event("wrote_raw", doc_id, <<>>, 0, 0)
WroteId(doc_id) == Event("wrote_id", doc_id, <<>>, 0, 0)
Summary(total, known) == Event("summary", "", <<>>, total, known)

IdleTask ==
    [ pc |-> "idle",
      start_date_str |-> <<>>, end_date_str |-> <<>>,
      existing_ids |-> {}, current_date |-> NoDate, end_date |-> NoDate,
      doc_ids |-> <<>>, idx |-> 0,
      new_docs_this_day |-> 0, total_new_docs_processed |-> 0,
      raised |-> FALSE,          \* an exception left ingest_boe_data
      how |-> "",                \* history: how the try statement was left
      cached_at_start |-> {},    \* history: identifiers in the cache file at start
      raw_at_start |-> 0,        \* history: lines of OUTPUT_FILE at start
      trace |-> <<>> ]           \* history: what the run did, in order

\* mutant: the summary is logged after the try statement, not in a finally
exit_no_finally(r, how) ==
    IF how = "return" THEN [r EXCEPT !.pc = "done", !.how = how]
    ELSE [r EXCEPT !.pc = "done",
                   !.how = how,
                   !.trace = Append(@, Summary(r.total_new_docs_processed,
                                               Cardinality(r.existing_ids)))]

\* lines 149-162: how the try statement is left ("end", "return" or
\* "exception"); except Exception logs, finally logs the summary
exit(r, how) ==
    [r EXCEPT !.pc = "done",
              !.raised = FALSE,
              !.how = how,
              !.trace = Append(@, Summary(r.total_new_docs_processed,
                                          Cardinality(r.existing_ids)))]

\* line 96: the head of the while loop, up to the await of line 101
while_head(r) ==
    IF date_le(r.current_date, r.end_date)
    THEN [r EXCEPT !.pc = "await_summary",
                   !.trace = Append(@, GetSummary(strftime(r.current_date)))]
    ELSE exit(r, "end")

\* mutant: the identifier is not looked up in the in-memory set
for_doc_id_unchecked(r) ==
    IF r.idx > Len(r.doc_ids)
    THEN while_head([r EXCEPT
             !.total_new_docs_processed = @ + r.new_docs_this_day,
             !.current_date = next_day(@)])
    ELSE [r EXCEPT !.new_docs_this_day = @ + 1,
                   !.pc = "await_xml",
                   !.trace = Append(@, GetXml(r.doc_ids[r.idx]))]


RECURSIVE for_doc_id(_)
\* lines 111-123 and 145-147: the for loop from position r.idx up to the
\* next await, or through the end of the day
for_doc_id(r) ==
    IF r.idx > Len(r.doc_ids)
    THEN while_head([r EXCEPT
             !.total_new_docs_processed = @ + r.new_docs_this_day,
             !.current_date = next_day(@)])
    ELSE IF r.doc_ids[r.idx] \in r.existing_ids
    THEN for_doc_id([r EXCEPT !.idx = @ + 1])
    ELSE [r EXCEPT !.new_docs_this_day = @ + 1,
                   !.pc = "await_xml",
                   !.trace = Append(@, GetXml(r.doc_ids[r.idx]))]

\* mutant: an identifier that is skipped is remembered as processed
continue_remembering(r) ==
    for_doc_id([r EXCEPT !.idx = @ + 1,
                         !.existing_ids = @ \cup {r.doc_ids[r.idx]}])

\* lines 124-125 and 128-130: `continue` after a content that is absent or
\* has no text
continue(r) == for_doc_id([r EXCEPT !.idx = @ + 1])

\* lines 85-90
dates_valid(start_date_str, end_date_str) ==
    strptime(start_date_str).ok /\ strptime(end_date_str).ok

file_ids(file) == IF file.exists THEN Range(file.lines) ELSE {}

\* lines 73-101: the call of ingest_boe_data up to its first await
StartRun(t, start_date_str, end_date_str) ==
    /\ task[t].pc \in {"idle", "done", "crashed"}
    /\ runs < MaxRuns
    /\ runs' = runs + 1
    /\ ended' = IF task[t].pc = "idle" THEN ended ELSE Append(ended, task[t].pc)
    /\ \E loaded \in load_processed_ids(PROCESSED_IDS_FILE) :
         LET r == [IdleTask EXCEPT
                      !.start_date_str = start_date_str,
                      !.end_date_str = end_date_str,
                      !.existing_ids = IF loaded.raised THEN {} ELSE loaded.v,
                      !.cached_at_start = file_ids(PROCESSED_IDS_FILE),
                      !.raw_at_start = Len(OUTPUT_FILE)]
         IN task' = [task EXCEPT ![t] =
              IF loaded.raised THEN exit(r, "exception")
              ELSE IF ~dates_valid(start_date_str, end_date_str)
              THEN exit(r, "return")
              ELSE while_head([r EXCEPT
                       !.current_date = strptime(start_date_str).date,
                       !.end_date = strptime(end_date_str).date])]
    /\ UNCHANGED <<source_manifest, source_xml, OUTPUT_FILE, PROCESSED_IDS_FILE>>
    /\ UNCHANGED leafVars

\* what the source answers for a date
manifest_response(date_str) ==
    IF date_str \in DOMAIN source_manifest THEN source_manifest[date_str] ELSE Http(404)

\* lines 101-123: fetch_summary_ids returns (or raises), up to the next await
SummaryResponse(t) ==
    /\ task[t].pc = "await_summary"
    /\ \E doc_ids \in fetch_summary_ids(manifest_response(strftime(task[t].current_date))) :
         LET r == task[t]
         IN task' = [task EXCEPT ![t] =
              IF doc_ids.raised THEN exit(r, "exception")
              ELSE IF doc_ids.v = <<>>
              THEN while_head([r EXCEPT !.current_date = next_day(@)])
              ELSE for_doc_id([r EXCEPT
                       !.doc_ids = [i \in DOMAIN doc_ids.v |-> doc_ids.v[i].s],
                       !.idx = 1,
                       !.new_docs_this_day = 0])]
    /\ UNCHANGED <<source_manifest, source_xml, OUTPUT_FILE, PROCESSED_IDS_FILE,
                   runs, ended>>
    /\ UNCHANGED leafVars

doc_data(doc_id, date_str, clean_text) ==
    [id |-> doc_id, date |-> date_str, url |-> <<"txt.php?id=", doc_id>>,
     texto_limpio |-> clean_text]

\* lines 123-142 and on to the next await: fetch_document_xml returns (or
\* raises), the text is extracted, the two appends are made
XmlResponse(t) ==
    /\ task[t].pc = "await_xml"
    /\ LET r == task[t]
           doc_id == r.doc_ids[r.idx]
           xml_content == fetch_document_xml(source_xml[doc_id])
           skip == continue(r)
       IN IF xml_content.raised
          THEN /\ task' = [task EXCEPT ![t] = exit(r, "exception")]
               /\ UNCHANGED <<OUTPUT_FILE, PROCESSED_IDS_FILE>>
          ELSE IF xml_content.v = None \/ xml_content.v.empty
          THEN /\ task' = [task EXCEPT ![t] = skip]
               /\ UNCHANGED <<OUTPUT_FILE, PROCESSED_IDS_FILE>>
          ELSE LET clean_text == parse_legal_text(xml_content.v)
               IN IF clean_text = <<>>
                  THEN /\ task' = [task EXCEPT ![t] = skip]
                       /\ UNCHANGED <<OUTPUT_FILE, PROCESSED_IDS_FILE>>
                  ELSE /\ OUTPUT_FILE' \in save_to_jsonl(OUTPUT_FILE,
                              doc_data(doc_id, strftime(r.current_date), clean_text))
                       /\ PROCESSED_IDS_FILE' \in
                              save_processed_id(PROCESSED_IDS_FILE, doc_id)
                       /\ task' = [task EXCEPT ![t] =
                             for_doc_id([r EXCEPT
                                 !.existing_ids = @ \cup {doc_id},
                                 !.idx = @ + 1,
                                 !.trace = @
                                    \o (IF OUTPUT_FILE' # OUTPUT_FILE
                                        THEN <<WroteRaw(doc_id)>> ELSE <<>>)
                                    \o (IF PROCESSED_IDS_FILE' # PROCESSED_IDS_FILE
                                        THEN <<WroteId(doc_id)>> ELSE <<>>)])]
    /\ UNCHANGED <<source_manifest, source_xml, runs, ended>>
    /\ UNCHANGED leafVars

\* the process is killed while the task waits for the source
KilledWhileWaiting(t) ==
    /\ task[t].pc \in {"await_summary", "await_xml"}
    /\ task' = [task EXCEPT ![t].pc = "crashed"]
    /\ UNCHANGED <<source_manifest, source_xml, OUTPUT_FILE, PROCESSED_IDS_FILE,
                   runs, ended>>
    /\ UNCHANGED leafVars

\* the process is killed between line 140 and line 141: the document is in
\* the raw store, its identifier is not in the cache
KilledBetweenWrites(t) ==
    /\ task[t].pc = "await_xml"
    /\ LET r == task[t]
           doc_id == r.doc_ids[r.idx]
           xml_content == fetch_document_xml(source_xml[doc_id])
       IN /\ ~xml_content.raised
          /\ xml_content.v # None
          /\ ~xml_content.v.empty
          /\ parse_legal_text(xml_content.v) # <<>>
          /\ OUTPUT_FILE' = Append(OUTPUT_FILE,
                 doc_data(doc_id, strftime(r.current_date),
                          parse_legal_text(xml_content.v)))
          /\ task' = [task EXCEPT ![t].pc = "crashed",
                                  ![t].trace = Append(@, WroteRaw(doc_id))]
    /\ UNCHANGED <<source_manifest, source_xml, PROCESSED_IDS_FILE, runs, ended>>
    /\ UNCHANGED leafVars

NotCalled == [called |-> FALSE, raised |-> FALSE, v |-> <<>>]
\* no chat_stream generator
NoChat == [pc |-> "none"]
Returned(r) == [called |-> TRUE, raised |-> r.raised, v |-> r.v]

LeafIdle ==
    leafOp = "none" /\ leafArg = Null /\ leafRet = NotCalled /\ chat = NoChat

Init ==
    /\ LeafIdle
    /\ source_manifest \in [SweepDates -> ManifestChoices]
    /\ source_xml \in [Ids -> ContentChoices]
    /\ OUTPUT_FILE = <<>>
    /\ PROCESSED_IDS_FILE = [exists |-> FALSE, lines |-> <<>>]
    /\ runs = 0
    /\ ended = <<>>
    /\ task = [t \in Tasks |-> IdleTask]

Next ==
    \/ \E s, e \in DateInputs : StartRun("task1", s, e)
    \/ SummaryResponse("task1")
    \/ XmlResponse("task1")
    \/ KilledWhileWaiting("task1")
    \/ KilledBetweenWrites("task1")

Spec == Init /\ [][Next]_vars

(***************************************************************************)
(* SpecLeaf: one leaf operation applied to one input                       *)
(***************************************************************************)
OrchIdle ==
    /\ source_manifest = [d \in SweepDates |-> Http(404)]
    /\ source_xml = [i \in Ids |-> Http(404)]
    /\ OUTPUT_FILE = <<>>
    /\ PROCESSED_IDS_FILE = [exists |-> FALSE, lines |-> <<>>]
    /\ runs = 0
    /\ ended = <<>>
    /\ task = [t \in Tasks |-> IdleTask]

LeafInit ==
    /\ OrchIdle
    /\ chat = NoChat
    /\ leafRet = NotCalled
    /\ \/ leafOp = "fetch_summary_ids" /\ leafArg \in SummaryResponses
       \/ leafOp = "fetch_document_xml" /\ leafArg \in DocumentResponses
       \/ leafOp = "parse_legal_text" /\ leafArg \in XmlContents

CallFetchSummaryIds ==
    /\ leafOp = "fetch_summary_ids" /\ leafRet = NotCalled
    /\ \E r \in fetch_summary_ids(leafArg) : leafRet' = Returned(r)
    /\ UNCHANGED <<leafOp, leafArg, chat>>
    /\ UNCHANGED orchVars

CallFetchDocumentXml ==
    /\ leafOp = "fetch_document_xml" /\ leafRet = NotCalled
    /\ leafRet' = Returned(fetch_document_xml(leafArg))
    /\ UNCHANGED <<leafOp, leafArg, chat>>
    /\ UNCHANGED orchVars

CallParseLegalText ==
    /\ leafOp = "parse_legal_text" /\ leafRet = NotCalled
    /\ leafRet' = Returned(Ok(parse_legal_text(leafArg)))
    /\ UNCHANGED <<leafOp, leafArg, chat>>
    /\ UNCHANGED orchVars

LeafNext == CallFetchSummaryIds \/ CallFetchDocumentXml \/ CallParseLegalText

SpecLeaf == LeafInit /\ [][LeafNext]_vars

(***************************************************************************)
(* What the manifest claims speak of, stated on the manifest itself        *)
(***************************************************************************)
Has(v, k) == v.t = "dict" /\ k \in DOMAIN v.f
At(v, k) == IF Has(v, k) THEN v.f[k] ELSE Null
Elems(v) == IF v.t = "list" THEN Range(v.q) ELSE {}
ItemsOf(v) == IF v.t = "dict" THEN {v} ELSE Elems(v)
IsName(v) == v.t = "str" /\ v.s # ""

DiariosIn(body) == Elems(At(At(At(body, "data"), "sumario"), "diario"))
SeccionesIn(body) == UNION {Elems(At(d, "seccion")) : d \in DiariosIn(body)}
RelevantSecciones(body) ==
    {s \in SeccionesIn(body) : At(s, "codigo") \in {Str("1"), Str("3")}}
DepartamentosIn(body) ==
    UNION {Elems(At(s, "departamento")) : s \in RelevantSecciones(body)}
EpigrafesIn(body) == UNION {Elems(At(d, "epigrafe")) : d \in DepartamentosIn(body)}
ItemsIn(body) == UNION {ItemsOf(At(e, "item")) : e \in EpigrafesIn(body)}
\* the identifiers of the items that have an identifier and a url_xml and lie
\* under a section "1" or "3", every node of the wrong shape left out
ExpectedIds(body) ==
    {At(i, "identificador") :
        i \in {x \in ItemsIn(body) :
                  IsName(At(x, "identificador")) /\ IsName(At(x, "url_xml"))}}

WfItem(i) ==
    /\ i.t = "dict"
    /\ \A k \in DOMAIN i.f : IsName(i.f[k])
WfEpigrafe(e) ==
    /\ e.t = "dict"
    /\ Has(e, "item") =>
          \/ WfItem(e.f["item"])
          \/ e.f["item"].t = "list" /\ \A i \in Elems(e.f["item"]) : WfItem(i)
WfDepartamento(d) ==
    /\ d.t = "dict"
    /\ Has(d, "epigrafe") =>
          d.f["epigrafe"].t = "list" /\ \A e \in Elems(d.f["epigrafe"]) : WfEpigrafe(e)
WfSeccion(s) ==
    /\ s.t = "dict"
    /\ Has(s, "codigo") /\ IsName(At(s, "codigo"))
    /\ Has(s, "departamento") =>
          s.f["departamento"].t = "list"
          /\ \A d \in Elems(s.f["departamento"]) : WfDepartamento(d)
WfDiario(d) ==
    /\ d.t = "dict"
    /\ Has(d, "seccion") =>
          d.f["seccion"].t = "list" /\ \A s \in Elems(d.f["seccion"]) : WfSeccion(s)
\* every node of the manifest has the documented shape
IsWellFormed(body) ==
    /\ body.t = "dict"
    /\ Has(body, "data") =>
          /\ body.f["data"].t = "dict"
          /\ Has(body.f["data"], "sumario") =>
                /\ body.f["data"].f["sumario"].t = "dict"
                /\ Has(body.f["data"].f["sumario"], "diario") =>
                      /\ body.f["data"].f["sumario"].f["diario"].t = "list"
                      /\ \A d \in DiariosIn(body) : WfDiario(d)

\* the same manifest with every single-object `item` put in a one-element list
ListifyEpigrafe(e) ==
    IF Has(e, "item") /\ e.f["item"].t = "dict"
    THEN Dict([e.f EXCEPT !["item"] = List(<<@>>)]) ELSE e
ListifyDepartamento(d) ==
    IF Has(d, "epigrafe") /\ d.f["epigrafe"].t = "list"
    THEN Dict([d.f EXCEPT !["epigrafe"] =
                 List([i \in DOMAIN @.q |-> ListifyEpigrafe(@.q[i])])]) ELSE d
ListifySeccion(s) ==
    IF Has(s, "departamento") /\ s.f["departamento"].t = "list"
    THEN Dict([s.f EXCEPT !["departamento"] =
                 List([i \in DOMAIN @.q |-> ListifyDepartamento(@.q[i])])]) ELSE s
ListifyDiario(d) ==
    IF Has(d, "seccion") /\ d.f["seccion"].t = "list"
    THEN Dict([d.f EXCEPT !["seccion"] =
                 List([i \in DOMAIN @.q |-> ListifySeccion(@.q[i])])]) ELSE d
Listify(body) ==
    LET diario_list == At(At(At(body, "data"), "sumario"), "diario")
    IN IF diario_list.t = "list"
       THEN Body([i \in DOMAIN diario_list.q |-> ListifyDiario(diario_list.q[i])])
       ELSE body
HasSingleObjectItem(body) ==
    \E e \in EpigrafesIn(body) : At(e, "item").t = "dict"

RECURSIVE ChildPairs(_, _)
\* the (parent tag, node) pairs of all elements among `nodes` and below
ChildPairs(nodes, under) ==
    IF nodes = <<>> THEN {}
    ELSE {<<under, Head(nodes).tag>>}
         \cup ChildPairs(Head(nodes).kids, Head(nodes).tag)
         \cup ChildPairs(Tail(nodes), under)
MainTextAbsent(xml_content) ==
    <<"documento", "texto">> \notin ChildPairs(xml_content.soup, "[document]")

SummaryCalled == leafOp = "fetch_summary_ids" /\ leafRet.called
SummaryFailed ==
    leafArg.kind = "neterr" \/ leafArg.status >= 400 \/ ~leafArg.json

(***************************************************************************)
(* What the orchestrator claims speak of                                   *)
(***************************************************************************)
\* the run of ingest_boe_data under way, or the last one
TheRun == task["task1"]

\* the identifiers of the RawDocuments in lines lo..hi of the raw store
RawIds(lo, hi) == {OUTPUT_FILE[i].id : i \in lo..hi}

\* the run did one of the things evs for the identifier
Did(evs, id) ==
    \E i \in DOMAIN TheRun.trace :
        TheRun.trace[i].ev \in evs /\ TheRun.trace[i].id = id

\* the run did one of the things evs
DidAny(evs) == \E i \in DOMAIN TheRun.trace : TheRun.trace[i].ev \in evs

SourceCalls == {"get_summary", "get_xml"}
Appends == {"wrote_raw", "wrote_id"}

\* a calendar date in YYYYMMDD form: eight digits, a month 01..12, a day
\* of that month
IsYYYYMMDD(s) ==
    /\ Len(s) = 8
    /\ \A i \in 1..8 : IsDigit(s[i])
    /\ LET y == DigitVal(s[1]) * 1000 + DigitVal(s[2]) * 100
                + DigitVal(s[3]) * 10 + DigitVal(s[4])
           m == DigitVal(s[5]) * 10 + DigitVal(s[6])
           d == DigitVal(s[7]) * 10 + DigitVal(s[8])
           leap == (y % 4 = 0 /\ y % 100 # 0) \/ y % 400 = 0
           days == IF m = 2 THEN (IF leap THEN 29 ELSE 28)
                   ELSE IF m \in {4, 6, 9, 11} THEN 30 ELSE 31
       IN y >= 1 /\ m \in 1..12 /\ d \in 1..days

\* the day a parsed date string names, as one number
DayKey(s) ==
    LET dt == strptime(s).date IN dt.y * 10000 + dt.m * 100 + dt.d

(***************************************************************************)
(* Claims on ingest_boe_data (Spec)                                        *)
(***************************************************************************)
\* C1: when ingest_boe_data has run twice, one run after the other, against
\* the same source, the second run has appended no raw-store record and no
\* cache line for an identifier the first run persisted.
C1_SecondRunAddsNothing ==
    (runs = 2 /\ ended = <<"done">> /\ TheRun.pc = "done")
        => \A id \in RawIds(1, TheRun.raw_at_start) \cup TheRun.cached_at_start :
               ~Did(Appends, id)

\* C2: for every identifier in the identifier cache when a run starts, the
\* run never fetches its content, never appends a RawDocument for it and
\* never appends another cache line for it.
C2_CachedIdNeverRepeated ==
    \A id \in TheRun.cached_at_start : ~Did({"get_xml"} \cup Appends, id)

\* C3: after any sequence of runs, the raw store holds at most one
\* RawDocument per DocumentIdentifier.
C3_OneRawDocumentPerId ==
    \A i, j \in DOMAIN OUTPUT_FILE :
        OUTPUT_FILE[i].id = OUTPUT_FILE[j].id => i = j

\* C4: whenever the orchestrator is between two identifiers or has finished
\* a run, every identifier with a RawDocument in the raw store is in the
\* in-memory set and in the durable cache file.
C4_RawIdsAreProcessed ==
    TheRun.pc \in {"await_summary", "await_xml", "done"}
        => \A id \in RawIds(1, Len(OUTPUT_FILE)) :
               /\ id \in TheRun.existing_ids
               /\ id \in file_ids(PROCESSED_IDS_FILE)

\* C5: when start_date or end_date is not a calendar date in YYYYMMDD form,
\* the run makes no Source Client call, appends nothing to the raw store
\* and nothing to the identifier cache.
C5_MalformedDatesAbort ==
    ( /\ TheRun.pc # "idle"
      /\ ~IsYYYYMMDD(TheRun.start_date_str) \/ ~IsYYYYMMDD(TheRun.end_date_str) )
        => /\ ~DidAny(SourceCalls \cup Appends)
           /\ Len(OUTPUT_FILE) = TheRun.raw_at_start

\* C6: a run that has ended has emitted the summary exactly once, as its
\* last action, and no exception has left it, on every exit path; a run
\* under way has not emitted it.
C6_SummaryOnceAndLast ==
    LET trace == TheRun.trace
        summaries == {i \in DOMAIN trace : trace[i].ev = "summary"}
    IN /\ TheRun.pc = "done" => summaries = {Len(trace)} /\ trace # <<>>
       /\ TheRun.pc = "done" => ~TheRun.raised
       /\ TheRun.pc \in {"await_summary", "await_xml"} => summaries = {}

\* a run that has ended on an exception raised while fetching a content
C6_Witness ==
    LET trace == TheRun.trace
    IN /\ TheRun.pc = "done"
       /\ Len(trace) >= 2
       /\ trace[Len(trace) - 1].ev = "get_xml"
       /\ fetch_document_xml(source_xml[trace[Len(trace) - 1].id]).raised
       /\ trace[Len(trace)].ev = "summary"

\* C7: for every pair of parseable dates with start_date after end_date,
\* the run queries no manifest, fetches no content, persists nothing and
\* ends normally with the summary of zero documents.
C7_DegenerateRange ==
    ( /\ TheRun.pc # "idle"
      /\ dates_valid(TheRun.start_date_str, TheRun.end_date_str)
      /\ DayKey(TheRun.start_date_str) > DayKey(TheRun.end_date_str) )
        => /\ TheRun.pc = "done"
           /\ ~TheRun.raised
           /\ TheRun.trace = <<Summary(0, Cardinality(TheRun.existing_ids))>>
           /\ Len(OUTPUT_FILE) = TheRun.raw_at_start

\* a second run over a degenerate range, after a first run that persisted
\* a document
C7_Witness ==
    /\ runs = 2
    /\ OUTPUT_FILE # <<>>
    /\ TheRun.pc = "done"
    /\ dates_valid(TheRun.start_date_str, TheRun.end_date_str)
    /\ DayKey(TheRun.start_date_str) > DayKey(TheRun.end_date_str)
    /\ TheRun.trace = <<Summary(0, Cardinality(TheRun.existing_ids))>>

(***************************************************************************)
(* Claims on the leaf operations (SpecLeaf)                                *)
(***************************************************************************)
\* C8: the leaf operations never raise for expected or transient
\* conditions: fetch_summary_ids returns the empty list on a 404, on any
\* other HTTP error status, on a network failure and on an undecodable body;
\* fetch_document_xml returns None on a 404, on any other HTTP error status
\* and on a network failure; parse_legal_text returns the empty string when
\* the main text block is absent or the markup cannot be parsed.
C8_LeavesAbsorbFailures ==
    leafRet.called =>
        CASE leafOp = "fetch_summary_ids" ->
               SummaryFailed => (~leafRet.raised /\ leafRet.v = <<>>)
          [] leafOp = "fetch_document_xml" ->
               (leafArg.kind = "neterr" \/ leafArg.status >= 400)
                   => (~leafRet.raised /\ leafRet.v = None)
          [] leafOp = "parse_legal_text" ->
               (~leafArg.parses \/ MainTextAbsent(leafArg))
                   => (~leafRet.raised /\ leafRet.v = <<>>)

C8_Witness ==
    /\ leafRet.called
    /\ leafOp = "fetch_document_xml"
    /\ leafArg.kind = "http" /\ leafArg.status = 500
    /\ leafRet.v = None

\* C9: for a manifest with a node of the wrong shape at any nesting level,
\* fetch_summary_ids skips only that node, still returns the identifiers of
\* all well-formed sibling nodes, and raises nothing to the orchestrator.
C9_MalformedNodeSkipped ==
    (SummaryCalled /\ ~SummaryFailed /\ leafArg.body \in MalformedManifests) =>
        /\ ~leafRet.raised
        /\ ExpectedIds(leafArg.body) \subseteq Range(leafRet.v)

RECURSIVE CharsIn(_)
\* the characters of the strings among the nodes and below
CharsIn(nodes) ==
    IF nodes = <<>> THEN {}
    ELSE Range(Head(nodes).text) \cup CharsIn(Head(nodes).kids)
         \cup CharsIn(Tail(nodes))

\* the children named `name` of the elements named `parent` among the nodes
KidsNamed(nodes, parent, name) ==
    LET ps == {i \in DOMAIN nodes : nodes[i].tag = parent}
    IN UNION {{nodes[i].kids[j] : j \in {k \in DOMAIN nodes[i].kids :
                                           nodes[i].kids[k].tag = name}} : i \in ps}

\* the primary text blocks: texto children of the root documento
RootTextos(soup) == KidsNamed(soup, "documento", "texto")
\* the texto blocks under the analisis children of the root documento
NestedTextos(soup) ==
    UNION {KidsNamed(<<a>>, "analisis", "texto") :
              a \in KidsNamed(soup, "documento", "analisis")}
CharsOf(blocks) == UNION {CharsIn(<<b>>) : b \in blocks}

ParseCalled == leafOp = "parse_legal_text" /\ leafRet.called
HasBothTextos ==
    /\ leafArg.parses
    /\ RootTextos(leafArg.soup) # {}
    /\ NestedTextos(leafArg.soup) # {}

\* C11: for markup with a texto block that is a direct child of the root
\* documento and a texto block nested under analisis, parse_legal_text
\* returns only characters of the root-level block (and separators): no
\* character that occurs only in the nested block is in the result.
C11_OnlyRootLevelText ==
    (ParseCalled /\ HasBothTextos)
        => /\ ~leafRet.raised
           /\ Range(leafRet.v) \cap (CharsOf(NestedTextos(leafArg.soup))
                                        \ CharsOf(RootTextos(leafArg.soup))) = {}
           /\ Range(leafRet.v) \ {" ", "\n"} \subseteq CharsOf(RootTextos(leafArg.soup))

\* the analisis subtree comes first in the document and a text is returned
C11_Witness ==
    /\ ParseCalled /\ HasBothTextos
    /\ leafArg.soup[1].kids[1].tag = "analisis"
    /\ leafRet.v # <<>>

(***************************************************************************)
(* data_processing/chunker.py.  A text is a sequence of tokens; a token is *)
(* a character or a word written as one string                             *)
(***************************************************************************)
\* the spellings re.IGNORECASE accepts for a keyword of the pattern
Spellings(kw) ==
    CASE kw = "Anexo" -> {"Anexo", "anexo"}
      [] OTHER -> {kw}

\* [IVXLCDM] under re.IGNORECASE
RomanChars ==
    {"I", "V", "X", "L", "C", "D", "M", "i", "v", "x", "l", "c", "d", "m"}

\* \w: every token but whitespace and punctuation
IsWord(c) == ~IsSpace(c) /\ c # "."

\* cls+\. at the head of r: one or more tokens of the class, then a period
ClassRunThenDot(r, cls) ==
    \E n \in 1..Len(r) :
        /\ \A i \in 1..n : r[i] \in cls
        /\ Len(r) > n /\ r[n + 1] = "."

\* the lookahead of LEGAL_BOUNDARY_REGEX at the head of r:
\* Artículo \d+\.|Disposición \w+|Anexo|CAPÍTULO [IVXLCDM]+\.|TÍTULO [IVXLCDM]+\.
lookahead(r) ==
    /\ r # <<>>
    /\ \/ /\ r[1] \in Spellings("Artículo")
          /\ Len(r) >= 2 /\ r[2] = " "
          /\ ClassRunThenDot(SubSeq(r, 3, Len(r)), Range(DigitChars))
       \/ /\ r[1] \in Spellings("Disposición")
          /\ Len(r) >= 3 /\ r[2] = " " /\ IsWord(r[3])
       \/ r[1] \in Spellings("Anexo")
       \/ /\ r[1] \in Spellings("CAPÍTULO") \cup Spellings("TÍTULO")
          /\ Len(r) >= 2 /\ r[2] = " "
          /\ ClassRunThenDot(SubSeq(r, 3, Len(r)), RomanChars)

\* mutant: the pattern without the lookahead group, which consumes the marker
match_end_consuming(t, i) ==
    IF t[i] # "\n" THEN 0
    ELSE LET rest == SubSeq(t, i + 1, Len(t))
             j == i + 1 + (Len(rest) - Len(lstrip(rest)))
         IN IF lookahead(SubSeq(t, j, Len(t))) THEN j ELSE 0

\* mutant: the pattern \n\s* alone, which splits at every line end
match_end_every_newline(t, i) ==
    IF t[i] # "\n" THEN 0
    ELSE LET rest == SubSeq(t, i + 1, Len(t))
         IN i + (Len(rest) - Len(lstrip(rest)))

\* a match of \n\s*(?=...) that starts at position i: the position of its
\* last character, 0 when there is none.  \s* takes the whole run of
\* whitespace: every alternative of the lookahead starts with a letter
match_end(t, i) ==
    IF t[i] # "\n" THEN 0
    ELSE LET rest == SubSeq(t, i + 1, Len(t))
             j == i + 1 + (Len(rest) - Len(lstrip(rest)))
         IN IF lookahead(SubSeq(t, j, Len(t))) THEN j - 1 ELSE 0

RECURSIVE re_split(_)
\* LEGAL_BOUNDARY_REGEX.split(text): the pieces between the matches, found
\* from left to right without overlap
re_split(t) ==
    LET starts == {i \in DOMAIN t : match_end(t, i) > 0}
    IN IF starts = {} THEN <<t>>
       ELSE LET i == CHOOSE k \in starts : \A m \in starts : k <= m
            IN <<SubSeq(t, 1, i - 1)>>
               \o re_split(SubSeq(t, match_end(t, i) + 1, Len(t)))

\* chunk_text.split('\n', 1)[0]
first_line(chunk_text) ==
    IF \E i \in DOMAIN chunk_text : chunk_text[i] = "\n"
    THEN SubSeq(chunk_text, 1,
                (CHOOSE i \in DOMAIN chunk_text :
                    chunk_text[i] = "\n"
                    /\ \A j \in 1..(i - 1) : chunk_text[j] # "\n") - 1)
    ELSE chunk_text

\* the number of characters of a token
TokLen(c) ==
    CASE c \in {"Artículo", "CAPÍTULO"} -> 8
      [] c = "Disposición" -> 11
      [] c \in {"Anexo", "anexo"} -> 5
      [] c = "TÍTULO" -> 6
      [] c = "AA..A" -> 150
      [] OTHER -> 1

RECURSIVE len(_)
\* len(s), in characters
len(s) == IF s = <<>> THEN 0 ELSE TokLen(Head(s)) + len(Tail(s))

UpperTokens == {"CAPÍTULO", "TÍTULO", "I", "AA..A"}
LowerTokens == {"a", "anexo", "Artículo", "Disposición", "Anexo"}
\* str.isupper(): no lowercase character and at least one uppercase one
isupper(s) ==
    /\ \A i \in DOMAIN s : s[i] \notin LowerTokens
    /\ \E i \in DOMAIN s : s[i] \in UpperTokens

RECURSIVE str_int(_)
\* the decimal digits of a natural number, as f"{chunk_seq}" writes it
str_int(n) ==
    IF n < 10 THEN <<DigitChar(n)>>
    ELSE str_int(n \div 10) \o <<DigitChar(n % 10)>>

\* lines 66-71
chunk_title(chunk_text) ==
    IF len(first_line(chunk_text)) < 150 /\ isupper(first_line(chunk_text))
    THEN first_line(chunk_text) ELSE <<"Context">>

RECURSIVE for_chunk_text_enumerate(_, _, _, _)
\* mutant: the sequence number is the position of the piece (enumerate), so
\* a piece discarded as empty consumes a number
for_chunk_text_enumerate(chunks, chunk_seq, doc_id, doc_url) ==
    IF chunks = <<>> THEN <<>>
    ELSE LET chunk_text == strip(Head(chunks))
         IN (IF chunk_text = <<>> THEN <<>>
             ELSE << [ chunk_id |-> doc_id.s \o <<"_chunk_">> \o str_int(chunk_seq),
                       doc_id |-> doc_id,
                       doc_url |-> doc_url,
                       chunk_title |-> chunk_title(chunk_text),
                       text |-> chunk_text ] >>)
            \o for_chunk_text_enumerate(Tail(chunks), chunk_seq + 1, doc_id, doc_url)

RECURSIVE for_chunk_text_title_cut(_, _, _, _)
\* mutant: a first line taken as the title is cut from the text of the chunk
for_chunk_text_title_cut(chunks, chunk_seq, doc_id, doc_url) ==
    IF chunks = <<>> THEN <<>>
    ELSE LET chunk_text == strip(Head(chunks))
             title == chunk_title(chunk_text)
         IN IF chunk_text = <<>>
            THEN for_chunk_text_title_cut(Tail(chunks), chunk_seq, doc_id, doc_url)
            ELSE << [ chunk_id |-> doc_id.s \o <<"_chunk_">> \o str_int(chunk_seq),
                      doc_id |-> doc_id,
                      doc_url |-> doc_url,
                      chunk_title |-> title,
                      text |-> IF title = <<"Context">> THEN chunk_text
                               ELSE strip(SubSeq(chunk_text, Len(title) + 1,
                                                 Len(chunk_text))) ] >>
                 \o for_chunk_text_title_cut(Tail(chunks), chunk_seq + 1, doc_id, doc_url)

RECURSIVE for_chunk_text(_, _, _, _)
\* lines 60-82: the loop over the pieces, from sequence number chunk_seq
for_chunk_text(chunks, chunk_seq, doc_id, doc_url) ==
    IF chunks = <<>> THEN <<>>
    ELSE LET chunk_text == strip(Head(chunks))
         IN IF chunk_text = <<>>
            THEN for_chunk_text(Tail(chunks), chunk_seq, doc_id, doc_url)
            ELSE << [ chunk_id |-> doc_id.s \o <<"_chunk_">> \o str_int(chunk_seq),
                      doc_id |-> doc_id,
                      doc_url |-> doc_url,
                      chunk_title |-> chunk_title(chunk_text),
                      text |-> chunk_text ] >>
                 \o for_chunk_text(Tail(chunks), chunk_seq + 1, doc_id, doc_url)

\* mutant: data["texto_limpio"], which raises KeyError for a missing key
process_document_subscript(data) ==
    IF "texto_limpio" \notin DOMAIN data.f THEN Raise
    ELSE LET text == data.f.texto_limpio
             doc_id == get(data, "id", Str(<<"unknown">>)).v
             doc_url == get(data, "url", Str(<<>>)).v
             not_text == IF text.t = "str" THEN text.s = <<>> ELSE ~Truthy(text)
         IN IF not_text THEN Ok(<<>>)
            ELSE IF text.t # "str" THEN Raise
            ELSE Ok(for_chunk_text(re_split(text.s), 0, doc_id, doc_url))

\* process_document(data): the list of chunks, or TypeError when
\* texto_limpio is truthy and no string
process_document(data) ==
    LET text == get(data, "texto_limpio", Str(<<>>)).v
        doc_id == get(data, "id", Str(<<"unknown">>)).v
        doc_url == get(data, "url", Str(<<>>)).v
        not_text == IF text.t = "str" THEN text.s = <<>> ELSE ~Truthy(text)
    IN IF not_text THEN Ok(<<>>)
       ELSE IF text.t # "str" THEN Raise
       ELSE Ok(for_chunk_text(re_split(text.s), 0, doc_id, doc_url))

(***************************************************************************)
(* SpecChunk: process_document applied to one document                     *)
(***************************************************************************)
\* most lines of a text in the enumerated documents
MaxLines == 3

\* the lines the texts are made of: prose, blank lines, each marker of the
\* pattern, and near misses (a marker inside a line, a number or a numeral
\* without its period, a keyword alone), a long upper-case line
LineKinds ==
    { <<"a">>, <<>>, <<" ">>,
      <<"Anexo">>, <<" ", "Anexo", " ", "a">>, <<"a", " ", "Anexo">>, <<"anexo">>,
      <<"Artículo", " ", "1", ".", " ", "a">>, <<"Artículo", " ", "1">>,
      <<"Disposición", " ", "a">>, <<"Disposición">>,
      <<"CAPÍTULO", " ", "I", ".">>, <<"CAPÍTULO", " ", "I">>,
      <<"TÍTULO", " ", "I", "I", ".">>,
      <<"AA..A">> }

Texts == {join(ls, <<"\n">>) : ls \in SeqsOf(LineKinds, 1, MaxLines)}

TheId == Str(<<"BOE-A-1">>)
TheUrl == Str(<<"txt.php?id=", "BOE-A-1">>)
RawDocument(text) == Dict([texto_limpio |-> text, id |-> TheId, url |-> TheUrl])

\* lines of raw_data.jsonl: the documents the orchestrator writes, and
\* records without text, identifier or url, or with a text that is no string
ChunkDocuments ==
    {RawDocument(Str(t)) : t \in Texts}
    \cup { RawDocument(Null), RawDocument(Num(1)),
           Dict([id |-> TheId, url |-> TheUrl]),
           Dict([id |-> TheId]),
           Dict([texto_limpio |-> Str(<<"a", "\n", "Anexo">>)]),
           Dict([texto_limpio |-> Str(<<"a", "\n", "Anexo">>), url |-> TheUrl]) }

ChunkInit ==
    /\ OrchIdle
    /\ chat = NoChat
    /\ leafRet = NotCalled
    /\ leafOp = "process_document"
    /\ leafArg \in ChunkDocuments

CallProcessDocument ==
    /\ leafOp = "process_document" /\ leafRet = NotCalled
    /\ leafRet' = Returned(process_document(leafArg))
    /\ UNCHANGED <<leafOp, leafArg, chat>>
    /\ UNCHANGED orchVars

ChunkNext == CallProcessDocument

SpecChunk == ChunkInit /\ [][ChunkNext]_vars

(***************************************************************************)
(* What the chunker claims speak of, stated on the text itself             *)
(***************************************************************************)
ChunkCalled == leafOp = "process_document" /\ leafRet.called
\* the text of the document given to process_document, "" when it has none
HasText == "texto_limpio" \in DOMAIN leafArg.f
TextIsStr == HasText /\ leafArg.f.texto_limpio.t = "str"
TheText == IF TextIsStr THEN leafArg.f.texto_limpio.s ELSE <<>>
\* the texts of the chunks returned, in order
ChunkTexts == [k \in DOMAIN leafRet.v |-> leafRet.v[k].text]

\* position j is the first of its line that is not whitespace
LineStart(t, j) ==
    /\ ~IsSpace(t[j])
    /\ \/ \A k \in 1..(j - 1) : IsSpace(t[k])
       \/ \E i \in 1..(j - 1) :
             t[i] = "\n" /\ \A k \in (i + 1)..(j - 1) : IsSpace(t[k])

\* a marker text: Artículo N., Disposición and a word, Anexo, CAPÍTULO or
\* TÍTULO with a Roman numeral and a period; upper or lower case
IsMarkerText(m) ==
    \/ m \in {<<"Anexo">>, <<"anexo">>}
    \/ /\ Len(m) >= 4 /\ m[1] = "Artículo" /\ m[2] = " " /\ m[Len(m)] = "."
       /\ \A i \in 3..(Len(m) - 1) : m[i] \in Range(DigitChars)
    \/ /\ Len(m) = 3 /\ m[1] = "Disposición" /\ m[2] = " "
       /\ m[3] \notin {" ", "\n", "."}
    \/ /\ Len(m) >= 4 /\ m[1] \in {"CAPÍTULO", "TÍTULO"} /\ m[2] = " "
       /\ m[Len(m)] = "."
       /\ \A i \in 3..(Len(m) - 1) : m[i] \in RomanChars

\* the text r starts with a marker text
MarkerHead(r) == \E n \in 1..Len(r) : IsMarkerText(SubSeq(r, 1, n))

\* the positions of the recognized legal markers of a text
Markers(t) ==
    {j \in DOMAIN t : LineStart(t, j) /\ MarkerHead(SubSeq(t, j, Len(t)))}

\* the text from marker m up to the next marker, or the end, trimmed
MarkerChunk(t, m) ==
    LET later == {j \in Markers(t) : j > m}
        stop == IF later = {} THEN Len(t)
                ELSE (CHOOSE j \in later : \A k \in later : j <= k) - 1
    IN strip(SubSeq(t, m, stop))

\* the text before the first marker, trimmed
Intro(t) ==
    IF Markers(t) = {} THEN strip(t)
    ELSE strip(SubSeq(t, 1, (CHOOSE j \in Markers(t) :
                                \A k \in Markers(t) : j <= k) - 1))

\* the markers of a text in document order
MarkerSeq(t) ==
    CHOOSE q \in Orderings(Markers(t)) :
        \A i, j \in DOMAIN q : i < j => q[i] < q[j]

\* C12: process_document splits the text immediately before each recognized
\* marker without consuming it: the chunks are the non-empty text before the
\* first marker, if any, then one chunk per marker in document order, each
\* starting with its marker.
C12_SplitsBeforeEachMarker ==
    (ChunkCalled /\ TextIsStr)
        => LET t == TheText
               ms == MarkerSeq(t)
               lead == IF Intro(t) = <<>> THEN <<>> ELSE <<Intro(t)>>
           IN /\ ~leafRet.raised
              /\ ChunkTexts = lead \o [k \in DOMAIN ms |-> MarkerChunk(t, ms[k])]
              /\ \A k \in DOMAIN ChunkTexts :
                    k > Len(lead) => MarkerHead(ChunkTexts[k])

\* a text before the first marker and two markers: three chunks, the second
\* a marker with a number
C12_Witness ==
    /\ ChunkCalled /\ TextIsStr
    /\ Len(leafRet.v) = 3
    /\ ~MarkerHead(ChunkTexts[1])
    /\ ChunkTexts[2][1] = "Artículo"
    /\ MarkerHead(ChunkTexts[3])

\* C13 as stated: for every document whose text is non-empty and has no
\* recognized marker, process_document returns exactly one chunk, whose
\* text is the whole input text trimmed.
C13_NoMarkerOneChunk ==
    (ChunkCalled /\ TextIsStr /\ TheText # <<>> /\ Markers(TheText) = {})
        => /\ ~leafRet.raised
           /\ ChunkTexts = <<strip(TheText)>>

\* C13 amended: for every document whose text has a character that is not
\* whitespace and has no recognized marker, process_document returns
\* exactly one chunk, whose text is the whole input text trimmed.
C13_NoMarkerOneChunkAmended ==
    (ChunkCalled /\ TextIsStr /\ strip(TheText) # <<>> /\ Markers(TheText) = {})
        => /\ ~leafRet.raised
           /\ ChunkTexts = <<strip(TheText)>>

\* a text of several lines with a marker text inside a line
C13_Witness ==
    /\ ChunkCalled /\ TextIsStr /\ Markers(TheText) = {}
    /\ "\n" \in Range(strip(TheText))
    /\ "Anexo" \in Range(TheText)
    /\ Len(leafRet.v) = 1

\* C14: for a document whose texto_limpio is the empty string or is
\* missing, process_document returns the empty list and raises no error.
C14_EmptyOrMissingText ==
    (ChunkCalled /\ (~HasText \/ (TextIsStr /\ TheText = <<>>)))
        => ~leafRet.raised /\ leafRet.v = <<>>

\* a document without the texto_limpio key
C14_Witness == ChunkCalled /\ ~HasText /\ leafRet.v = <<>>

\* C15: the chunk at position k, counted from 0, has the chunk_id
\* "<doc_id>_chunk_<k>" (so no number is skipped and no two chunks share a
\* chunk_id) and every chunk carries the doc_id and the doc_url of the
\* document.
C15_ChunkIdsInSequence ==
    (ChunkCalled /\ ~leafRet.raised
       /\ "id" \in DOMAIN leafArg.f /\ "url" \in DOMAIN leafArg.f)
        => /\ \A k \in DOMAIN leafRet.v :
                 /\ k <= 10
                 /\ leafRet.v[k].chunk_id
                        = leafArg.f.id.s \o <<"_chunk_", DigitChars[k]>>
                 /\ leafRet.v[k].doc_id = leafArg.f.id
                 /\ leafRet.v[k].doc_url = leafArg.f.url
           /\ \A j, k \in DOMAIN leafRet.v :
                 leafRet.v[j].chunk_id = leafRet.v[k].chunk_id => j = k

\* a text whose first piece is discarded as empty and that gives two chunks
C15_Witness ==
    /\ ChunkCalled /\ TextIsStr
    /\ "id" \in DOMAIN leafArg.f /\ "url" \in DOMAIN leafArg.f
    /\ TheText # <<>>
    /\ Intro(TheText) = <<>>
    /\ TheText[1] \in {" ", "\n"}
    /\ Len(leafRet.v) = 2

RECURSIVE Reconstructs(_, _)
\* the text t is the texts in order with nothing but whitespace before,
\* between and after them
Reconstructs(t, texts) ==
    LET u == lstrip(t)
    IN IF texts = <<>> THEN u = <<>>
       ELSE LET c == Head(texts)
            IN /\ Len(u) >= Len(c)
               /\ SubSeq(u, 1, Len(c)) = c
               /\ Reconstructs(SubSeq(u, Len(c) + 1, Len(u)), Tail(texts))

\* C16: the texts of the chunks, in sequence order, are slices of the
\* input text that follow one another with only whitespace before, between
\* and after them: no other character is lost, duplicated or reordered.
C16_RoundTrip ==
    (ChunkCalled /\ (TextIsStr \/ ~HasText))
        => /\ ~leafRet.raised
           /\ Reconstructs(TheText, ChunkTexts)

\* three chunks, one of them with an upper-case title line
C16_Witness ==
    /\ ChunkCalled /\ TextIsStr
    /\ Len(leafRet.v) = 3
    /\ \E k \in DOMAIN leafRet.v : leafRet.v[k].chunk_title # <<"Context">>

(***************************************************************************)
(* rag_agent/service.py: RagService._get_context and RagService.chat_stream*)
(***************************************************************************)
COLLECTION_NAME == "boe_legal_docs"
GROQ_MODEL == "llama-3.3-70b-versatile"
\* the notice returned as context when the search fails (line 118)
SearchFailedNotice == "No se pudo acceder a la base de datos legal."
\* the text of the system prompt before the context (lines 144-150)
SystemPromptHead == "Eres Justiniano, ... CONTEXTO DISPONIBLE:\n"

\* a returned point: its payload (a dict, or None) and its score (a number,
\* or None)
Hit(payload, score) == [payload |-> payload, score |-> score]

\* f"{score:.2f}": TypeError for None
format_score(score) ==
    IF score.t # "num" THEN Raise
    ELSE Ok(CASE score.n = 0 -> "0.00" [] score.n = 1 -> "1.00" [] OTHER -> "n.nn")

\* lines 124-132: the lines one hit adds to context_text and the identifier
\* it adds to source_ids, or the exception that escapes
hit_context(hit) ==
    LET doc_id == get(hit.payload, "original_id", Str("Unknown"))
        doc_text == get(hit.payload, "text", Str("Content Not Available."))
        score == format_score(hit.score)
    IN IF doc_id.raised \/ doc_text.raised \/ score.raised
       THEN [raised |-> TRUE, context_text |-> <<>>, source_ids |-> <<>>]
       ELSE [raised |-> FALSE,
             context_text |-> <<"--- Documento: ", doc_id.v.s, " (Relevancia: ",
                                 score.v, ") ---\n", doc_text.v.s, "\n\n">>,
             source_ids |-> <<doc_id.v.s>>]

RECURSIVE for_hit(_)
\* lines 120-134: the loop over the hits
for_hit(hits) ==
    IF hits = <<>>
    THEN [raised |-> FALSE, context_text |-> <<>>, source_ids |-> <<>>]
    ELSE LET h == hit_context(Head(hits))
             r == for_hit(Tail(hits))
         IN IF h.raised \/ r.raised
            THEN [raised |-> TRUE, context_text |-> <<>>, source_ids |-> <<>>]
            ELSE [raised |-> FALSE,
                  context_text |-> h.context_text \o r.context_text,
                  source_ids |-> h.source_ids \o r.source_ids]

\* mutant: the exception of the search is not caught
get_context_search_uncaught(embed, search) ==
    IF embed.raises
    THEN [raised |-> FALSE, context_text |-> <<>>, source_ids |-> <<>>,
          embedded |-> FALSE, searched |-> FALSE]
    ELSE IF search.raises
    THEN [raised |-> TRUE, context_text |-> <<>>, source_ids |-> <<>>,
          embedded |-> TRUE, searched |-> TRUE]
    ELSE for_hit(search.points) @@ [embedded |-> TRUE, searched |-> TRUE]

\* mutant: the notice is also returned when the embedding fails
get_context_notice_on_embed(embed, search) ==
    IF embed.raises \/ search.raises
    THEN [raised |-> FALSE, context_text |-> <<SearchFailedNotice>>,
          source_ids |-> <<>>, embedded |-> ~embed.raises,
          searched |-> ~embed.raises]
    ELSE for_hit(search.points) @@ [embedded |-> TRUE, searched |-> TRUE]

\* _get_context(query): embed says whether embedder.encode raises, search
\* whether qdrant.query_points raises and which points it returns
get_context(embed, search) ==
    IF embed.raises
    THEN [raised |-> FALSE, context_text |-> <<>>, source_ids |-> <<>>,
          embedded |-> FALSE, searched |-> FALSE]
    ELSE IF search.raises
    THEN [raised |-> FALSE, context_text |-> <<SearchFailedNotice>>,
          source_ids |-> <<>>, embedded |-> TRUE, searched |-> TRUE]
    ELSE for_hit(search.points) @@ [embedded |-> TRUE, searched |-> TRUE]

\* mutant: the whole history is sent
last4_whole_history(history) == history


\* history[-4:]
last4(history) ==
    IF Len(history) <= 4 THEN history
    ELSE SubSeq(history, Len(history) - 3, Len(history))

Message(role, content) == [role |-> role, content |-> content]

\* lines 144-161
messages_payload(context_str, history, query) ==
    <<Message("system", <<SystemPromptHead>> \o context_str)>>
    \o (IF history # <<>> THEN last4(history) ELSE <<>>)
    \o <<Message("user", <<query>>)>>

\* what the stream yields: the text, and how many chunks had been pulled
\* from the provider stream when it was yielded
Fragment(content, at) == [kind |-> "content", text |-> <<content>>, at |-> at]
\* line 182
ErrorFragment(e, at) ==
    [kind |-> "error",
     text |-> <<"Error del sistema: No se pudo conectar con el motor de IA. (",
                e, ")">>,
     at |-> at]

\* what the provider stream gives when the next chunk is pulled
Chunk(content) == [k |-> "chunk", content |-> content]
NoChoices == [k |-> "nochoices", content |-> Null]
StreamRaises == [k |-> "raise", content |-> Null]

NoCall == [made |-> FALSE, model |-> "", messages |-> <<>>]

\* the result of _get_context before it is called
NoContext ==
    [raised |-> FALSE, context_text |-> <<>>, source_ids |-> <<>>,
     embedded |-> FALSE, searched |-> FALSE]

\* RagService.chat_stream(query, history, user_tier) just created: nothing
\* of its body has run.  embed, search and provider are what the three
\* dependencies will do when they are called.  stream is the state of the
\* object returned by chat.completions.create: "none" before the call,
\* "open" while it has chunks to give, "exhausted", "raised", and what
\* becomes of it when the generator is closed while it is open.
Generator(query, history, user_tier, embed, search, provider) ==
    [pc |-> "created", query |-> query, history |-> history,
     user_tier |-> user_tier, embed |-> embed, search |-> search,
     provider |-> provider, context |-> NoContext, call |-> NoCall,
     encoded |-> <<>>, requests |-> <<>>, stream |-> "none",
     pulled |-> 0, out |-> <<>>]

\* str(e) of the exceptions of the generation
CreateError == "APIConnectionError"
StreamError == "APIError"
IndexError == "list index out of range"

RECURSIVE for_chunk_in_stream_buffered(_, _)
\* mutant: the whole provider stream is read before the first fragment is
\* yielded; c.out holds the fragments in the order they will be yielded
for_chunk_in_stream_buffered(c, n) ==
    LET items == c.provider.items
        all == Len(items)
    IN IF n = all
       THEN IF c.pulled < all /\ c.out # <<>>
            THEN [c EXCEPT !.pc = "suspended", !.pulled = all]
            ELSE [c EXCEPT !.pc = "ended", !.pulled = all]
       ELSE LET item == items[n + 1]
            IN IF item.k = "chunk" /\ Truthy(item.content)
               THEN for_chunk_in_stream_buffered(
                        [c EXCEPT !.out = Append(@, Fragment(item.content.s, all))],
                        n + 1)
               ELSE for_chunk_in_stream_buffered(c, n + 1)

RECURSIVE for_chunk_in_stream(_, _)
\* lines 175-182: the loop over the provider stream from its n-th chunk, up
\* to the next yield, the end of the stream or an exception
for_chunk_in_stream(c, n) ==
    IF n = Len(c.provider.items)
    THEN [c EXCEPT !.pc = "ended", !.pulled = n, !.stream = "exhausted"]
    ELSE LET item == c.provider.items[n + 1]
         IN CASE item.k = "raise" ->
                 [c EXCEPT !.pc = "suspended_error", !.pulled = n + 1,
                           !.stream = "raised",
                           !.out = Append(@, ErrorFragment(StreamError, n + 1))]
              [] item.k = "nochoices" ->
                 [c EXCEPT !.pc = "suspended_error", !.pulled = n + 1,
                           !.out = Append(@, ErrorFragment(IndexError, n + 1))]
              [] OTHER ->
                 IF Truthy(item.content)
                 THEN [c EXCEPT !.pc = "suspended", !.pulled = n + 1,
                                !.out = Append(@, Fragment(item.content.s, n + 1))]
                 ELSE for_chunk_in_stream(c, n + 1)

\* self.embedder.encode(query): the embedding is a function of the text
query_vector(query) == <<"vector", query>>

\* mutant: the tier chooses how many points are asked for
search_request_limit_by_tier(c) ==
    [collection_name |-> COLLECTION_NAME, query |-> query_vector(c.query),
     limit |-> IF c.user_tier = "pro" THEN 10 ELSE 5]

\* lines 109-113, called from line 141 with the default limit
search_request(c) ==
    [collection_name |-> COLLECTION_NAME, query |-> query_vector(c.query),
     limit |-> 5]

\* mutant: each tier has its own model
model_name_by_tier(user_tier) ==
    IF user_tier = "pro" THEN "llama-3.3-70b-versatile" ELSE "llama-3.1-8b-instant"

\* self.model_name (line 93), read at line 166 for a request of any tier
model_name(user_tier) == GROQ_MODEL

\* lines 141-182 from the first line to the first yield, the end or an
\* exception.  encoded lists the texts given to the embedder, requests the
\* searches asked of the index.
chat_stream(c) ==
    LET context == get_context(c.embed, c.search)
        retrieved == [c EXCEPT !.context = context,
                               !.encoded = <<c.query>>,
                               !.requests = IF context.searched
                                            THEN <<search_request(c)>>
                                            ELSE <<>>]
        called == [retrieved EXCEPT
                      !.stream = IF c.provider.raises THEN "none" ELSE "open",
                      !.call = [made |-> TRUE, model |-> model_name(c.user_tier),
                                messages |-> messages_payload(
                                    context.context_text, c.history, c.query)]]
    IN IF context.raised
       THEN [retrieved EXCEPT !.pc = "raised"]
       ELSE IF c.provider.raises
       THEN [called EXCEPT !.pc = "suspended_error",
                           !.out = <<ErrorFragment(CreateError, 0)>>]
       ELSE for_chunk_in_stream(called, 0)

(***************************************************************************)
(* SpecChat: one chat_stream generator and its consumer.  The consumer     *)
(* asks for the next fragment; the generator runs to its next yield, to    *)
(* its end, or to an exception that leaves it.                             *)
(***************************************************************************)
MaxHits == 2
MaxFragments == 2
MaxHistory == 5

Queries == {"q1"}
Tiers == {"free", "pro"}
\* the history of the request: its i-th entry is turn i
Turn(i) == Message(IF i % 2 = 1 THEN "user" ELSE "assistant", <<"turn", DigitChar(i)>>)
Histories == {[i \in 1..n |-> Turn(i)] : n \in 0..MaxHistory}

Payloads ==
    {Dict([original_id |-> Str("BOE-A-1"), text |-> Str("texto")]),
     EmptyDict, Null}
Scores == {Num(1), Null}
Hits == {Hit(p, s) : p \in Payloads, s \in Scores}
Embeds == {[raises |-> r] : r \in BOOLEAN}
Searches ==
    {[raises |-> TRUE, points |-> <<>>]}
    \cup {[raises |-> FALSE, points |-> q] : q \in SeqsOf(Hits, 0, MaxHits)}
Contents == {Str("a"), Str("b"), Str(""), Null}
StreamItems == {Chunk(x) : x \in Contents} \cup {NoChoices, StreamRaises}
\* a provider stream that raised gives nothing more
ProviderStreams ==
    {q \in SeqsOf(StreamItems, 0, MaxFragments) :
        \A i \in 1..Len(q) : q[i].k = "raise" => i = Len(q)}
Providers ==
    {[raises |-> TRUE, items |-> <<>>]}
    \cup {[raises |-> FALSE, items |-> q] : q \in ProviderStreams}

ChatInit ==
    /\ OrchIdle
    /\ leafOp = "none" /\ leafArg = Null /\ leafRet = NotCalled
    \* the search is not called when the embedding fails
    /\ \E q \in Queries, h \in Histories, t \in Tiers, p \in Providers :
          \E e \in Embeds :
             \E s \in IF e.raises THEN {[raises |-> TRUE, points |-> <<>>]}
                                   ELSE Searches :
                chat = Generator(q, h, t, e, s, p)

\* the consumer asks for the first fragment
FirstNext ==
    /\ chat.pc = "created"
    /\ chat' = chat_stream(chat)
    /\ UNCHANGED <<leafOp, leafArg, leafRet>>
    /\ UNCHANGED orchVars

\* the consumer asks for the next fragment after a content fragment
ResumeNext ==
    /\ chat.pc = "suspended"
    /\ chat' = for_chunk_in_stream(chat, chat.pulled)
    /\ UNCHANGED <<leafOp, leafArg, leafRet>>
    /\ UNCHANGED orchVars

\* the consumer asks for the next fragment after the error fragment: the
\* generator function returns
ResumeAfterError ==
    /\ chat.pc = "suspended_error"
    /\ chat' = [chat EXCEPT !.pc = "ended"]
    /\ UNCHANGED <<leafOp, leafArg, leafRet>>
    /\ UNCHANGED orchVars

\* what becomes of a provider stream that the generator leaves open: the
\* function never calls its close(), so it is closed only if the finalizers
\* of the interpreter and of the client library do it
Fates == {"finalized", "abandoned"}

\* the consumer goes away: the generator is closed before its first
\* fragment was asked for, or at the yield where it is suspended;
\* GeneratorExit is not an Exception, so line 180 does not catch it
Close ==
    /\ chat.pc \in {"created", "suspended", "suspended_error"}
    /\ \E fate \in Fates :
          chat' = [chat EXCEPT !.pc = "closed",
                               !.stream = IF @ = "open" THEN fate ELSE @]
    /\ UNCHANGED <<leafOp, leafArg, leafRet>>
    /\ UNCHANGED orchVars

ChatNext == FirstNext \/ ResumeNext \/ ResumeAfterError \/ Close

SpecChat == ChatInit /\ [][ChatNext]_vars

(***************************************************************************)
(* What the retrieval claims speak of                                      *)
(***************************************************************************)
\* the consumer has asked for the first fragment
ChatStarted == chat.pc \in {"suspended", "suspended_error", "ended", "raised"}
EmbeddingFails == chat.embed.raises
\* the search is called, and raises
SearchFails == ~chat.embed.raises /\ chat.search.raises
GenerationCalled == chat.call.made
\* the context given to the generation call: what follows the fixed text of
\* the system message
SentContext == Tail(chat.call.messages[1].content)
\* an exception has left the generator
ReachedConsumer == chat.pc = "raised"
StreamEnded == chat.pc = "ended"

\* C17: retrieval failure never blocks generation.  Once the generator has
\* been started, if the embedding of the query failed the generation call
\* has been made with an empty context, if the search failed it has been
\* made with the notice "No se pudo acceder a la base de datos legal." as
\* context, and in both cases the list of source identifiers is empty.
C17_RetrievalFailureNeverBlocks ==
    ChatStarted =>
        /\ EmbeddingFails =>
              /\ GenerationCalled
              /\ chat.call.messages[1].role = "system"
              /\ SentContext = <<>>
              /\ chat.context.source_ids = <<>>
        /\ SearchFails =>
              /\ GenerationCalled
              /\ chat.call.messages[1].role = "system"
              /\ SentContext = <<"No se pudo acceder a la base de datos legal.">>
              /\ chat.context.source_ids = <<>>

\* the search failed and the provider answered with a fragment
C17_Witness ==
    /\ SearchFails
    /\ GenerationCalled
    /\ chat.pc = "suspended"
    /\ chat.out # <<>>

\* C18: when the similarity search raises, the stream of chat_stream is not
\* empty: no exception reaches the consumer, and when the stream has ended
\* it has given at least one fragment, answer content or the error fragment,
\* whatever the generation provider did.
C18_SearchFailureStreamNotEmpty ==
    SearchFails =>
        /\ ~ReachedConsumer
        /\ StreamEnded => chat.out # <<>>

\* C19: chat_stream never raises to its consumer, whatever the embedding,
\* the search, the returned hits (a hit without payload, without score or
\* with missing payload fields) and the generation do.
C19_NeverRaisesToConsumer == ~ReachedConsumer

\* the chunks of the provider stream
Items == chat.provider.items
\* the i-th chunk of the provider stream carries non-empty text
HasContent(i) ==
    /\ Items[i].k = "chunk"
    /\ Items[i].content.t = "str"
    /\ Items[i].content.s # ""
\* pulling the i-th chunk, or reading its content, raises
Fails(i) == Items[i].k \in {"raise", "nochoices"}
\* the chunks with text among the first p of the provider stream
ContentIdx(p) == {i \in 1..p : HasContent(i)}
IsContent(f) == f.kind = "content"
IsError(f) == f.kind = "error"
\* the generation has raised: the call itself, or the last chunk pulled
GenerationRaised ==
    \/ chat.provider.raises
    \/ chat.pulled > 0 /\ Fails(chat.pulled)

\* C20: the stream is the provider's non-empty fragments in the order
\* produced, each yielded before the next chunk is pulled from the provider;
\* when the generation call or the provider stream raises after n fragments
\* the stream is those n fragments, then exactly one error fragment, then
\* its end; without an exception the ended stream holds every non-empty
\* fragment of the provider and nothing else.
C20_FragmentsInOrderThenOneError ==
    (ChatStarted /\ GenerationCalled) =>
        LET out == chat.out
            contents == SelectSeq(out, IsContent)
            errors == SelectSeq(out, IsError)
        IN /\ Len(contents) = Cardinality(ContentIdx(chat.pulled))
           /\ \A j \in 1..Len(contents) :
                 /\ contents[j].at \in ContentIdx(chat.pulled)
                 /\ contents[j].text = <<Items[contents[j].at].content.s>>
                 /\ \A k \in 1..Len(contents) :
                       j < k => contents[j].at < contents[k].at
           /\ chat.pc = "suspended" =>
                 /\ out # <<>>
                 /\ IsContent(out[Len(out)])
                 /\ out[Len(out)].at = chat.pulled
           /\ \A i \in 1..chat.pulled : Fails(i) => i = chat.pulled
           /\ IF GenerationRaised
              THEN /\ Len(errors) = 1
                   /\ IsError(out[Len(out)])
                   /\ chat.pc \in {"suspended_error", "ended"}
              ELSE /\ errors = <<>>
                   /\ chat.pc \in {"suspended", "ended"}
                   /\ StreamEnded => chat.pulled = Len(Items)

\* the provider stream raised after one fragment: the stream was that
\* fragment, then the error fragment, and has ended
C20_Witness ==
    /\ StreamEnded
    /\ Len(Items) = 2 /\ HasContent(1) /\ Items[2].k = "raise"
    /\ Len(chat.out) = 2
    /\ IsContent(chat.out[1]) /\ IsError(chat.out[2])

\* the messages given to the generation call
Sent == chat.call.messages
Min(a, b) == IF a <= b THEN a ELSE b

\* C21: the message list sent to the generation call is one system message,
\* then the last min(4, len(history)) entries of the history in their
\* original order, then the query as the final user message: at most 6
\* messages, and no entry of the history older than the last 4.
C21_SystemLast4ThenQuery ==
    GenerationCalled =>
        LET n == Len(chat.history)
            k == Min(4, n)
        IN /\ Len(Sent) = k + 2
           /\ Len(Sent) <= 6
           /\ Sent[1].role = "system"
           /\ \A j \in 1..k : Sent[1 + j] = chat.history[n - k + j]
           /\ Sent[k + 2] = [role |-> "user", content |-> <<chat.query>>]
           /\ \A i \in 1..(n - 4) : \A j \in 1..Len(Sent) : Sent[j] # chat.history[i]

\* a history of more than 4 entries was cut to its last 4
C21_Witness ==
    /\ GenerationCalled
    /\ Len(chat.history) > 4
    /\ Len(Sent) = 6
    /\ Sent[2] = chat.history[Len(chat.history) - 3]

\* the same request made with tier t, started
SameCallWithTier(t) ==
    chat_stream(Generator(chat.query, chat.history, t, chat.embed,
                          chat.search, chat.provider))

\* C22: the tier changes neither retrieval nor prompt assembly.  The same
\* request made with any other tier against the same index gives the same
\* embedded query, the same search request (collection, vector, limit) and
\* the same message list to the generation call.
C22_TierLeavesRetrievalAndPrompt ==
    ChatStarted =>
        \A t \in Tiers :
            LET other == SameCallWithTier(t)
            IN /\ other.encoded = chat.encoded
               /\ other.requests = chat.requests
               /\ other.call.made = chat.call.made
               /\ other.call.messages = chat.call.messages

\* a "pro" request that searched the index and called the generation
C22_Witness ==
    /\ ChatStarted
    /\ chat.user_tier = "pro"
    /\ chat.encoded = <<chat.query>>
    /\ Len(chat.requests) = 1
    /\ GenerationCalled

\* C23: the tier selects the generation model.  The model passed to the
\* generation call is determined by user_tier, and "free" and "pro" are
\* served by different models: the same request made with the other tier
\* goes to another model.
C23_TierSelectsModel ==
    GenerationCalled =>
        \A t \in Tiers \ {chat.user_tier} :
            SameCallWithTier(t).call.model # chat.call.model

\* the generator has been closed by its consumer
Closed == chat.pc = "closed"
\* the provider stream is no longer held open
StreamReleased == chat.stream \notin {"open", "abandoned"}

\* C24: when the consumer goes away, the generator being closed after any
\* number of fragments, the closing forwards no fragment (content or
\* error) and pulls no chunk from the provider stream, nothing is forwarded
\* or pulled afterwards, and the provider stream is released.
C24_CloseStopsAndReleases ==
    [][/\ chat'.pc = "closed" =>
             /\ chat'.out = chat.out
             /\ chat'.pulled = chat.pulled
             /\ chat'.stream \notin {"open", "abandoned"}
       /\ Closed => chat' = chat]_vars

(***************************************************************************)
(* SpecConcurrent: two ingest_boe_data tasks in one event loop.  Each      *)
(* trigger request adds one background task (router.py lines 84-88); the   *)
(* tasks interleave at the awaits of lines 101 and 123.                    *)
(***************************************************************************)
ConcurrentInit ==
    /\ LeafIdle
    /\ source_manifest \in [SweepDates -> {Http(404), HttpJson(Manifest({IdOf(1)})),
                                           HttpJson(Manifest(Ids))}]
    /\ source_xml \in [Ids -> {HttpText(GoodDocument), HttpText(NoTextDocument)}]
    /\ OUTPUT_FILE = <<>>
    /\ PROCESSED_IDS_FILE = [exists |-> FALSE, lines |-> <<>>]
    /\ runs = 0
    /\ ended = <<>>
    /\ task = [t \in Tasks |-> IdleTask]

ConcurrentNext ==
    \/ \E s, e \in SweepDates : StartRun("task1", s, e)
    \/ SummaryResponse("task1")
    \/ XmlResponse("task1")
    \/ \E s, e \in SweepDates : StartRun("task2", s, e)
    \/ SummaryResponse("task2")
    \/ XmlResponse("task2")

SpecConcurrent == ConcurrentInit /\ [][ConcurrentNext]_vars

\* task t fetched the content of the identifier and appended its RawDocument
FetchedAndPersisted(t, id) ==
    /\ \E i \in DOMAIN task[t].trace : task[t].trace[i] = GetXml(id)
    /\ \E i \in DOMAIN task[t].trace : task[t].trace[i] = WroteRaw(id)
\* nothing went wrong with the files in task t: it loaded every line of the
\* cache, and each RawDocument it appended was followed by its cache line
FilesWorked(t) ==
    /\ task[t].cached_at_start \subseteq task[t].existing_ids
    /\ \A i \in DOMAIN task[t].trace :
          task[t].trace[i].ev = "wrote_raw" =>
             /\ i < Len(task[t].trace)
             /\ task[t].trace[i + 1] = WroteId(task[t].trace[i].id)

\* C25: no two fetches for the same identifier both pass the cache check.
\* When two ingest_boe_data tasks over overlapping ranges are in flight at
\* once, no identifier is fetched and persisted by both.  (Stated for runs
\* in which every file operation worked, so that only the interleaving of
\* the two tasks can make it fail.)
C25_NoIdentifierPersistedByBoth ==
    (FilesWorked("task1") /\ FilesWorked("task2")) =>
        \A id \in Ids :
            ~(FetchedAndPersisted("task1", id) /\ FetchedAndPersisted("task2", id))

(***************************************************************************)
(* boe_ingestion/router.py: POST /admin/ingest-boe                         *)
(***************************************************************************)
\* a header or a body field that the request does not have
Missing == [t |-> "missing"]
\* the answer to a request: the status code and the background tasks that
\* the response carries, each run once after it has been sent
Response(status_code, background_tasks) ==
    [status_code |-> status_code, background_tasks |-> background_tasks]
HTTPException(status_code) == [raised |-> TRUE, v |-> Response(status_code, <<>>)]

\* mutant: the key of the request is not compared with the configured one
verify_api_key_unchecked(ML_ADMIN_API_KEY, x_api_key) ==
    IF ~Truthy(ML_ADMIN_API_KEY) THEN HTTPException(500)
    ELSE [raised |-> FALSE, v |-> Response(200, <<>>)]

\* lines 20-38; x_api_key is the value of the header, a str
verify_api_key(ML_ADMIN_API_KEY, x_api_key) ==
    IF ~Truthy(ML_ADMIN_API_KEY) THEN HTTPException(500)
    ELSE IF x_api_key # ML_ADMIN_API_KEY THEN HTTPException(403)
    ELSE [raised |-> FALSE, v |-> Response(200, <<>>)]

\* pattern=r"^\d{8}$" (lines 57 and 63)
pattern(s) == Len(s) = 8 /\ \A i \in 1..8 : IsDigit(s[i])

\* lines 50-66: the body is an IngestRequest when both fields are there
\* (Field(...)), are strings and match the pattern
IngestRequest(body) ==
    /\ body.start_date.t = "str" /\ pattern(body.start_date.s)
    /\ body.end_date.t = "str" /\ pattern(body.end_date.s)

\* lines 70-94
trigger_boe_ingestion(request) ==
    Response(200, <<[func |-> "ingest_boe_data",
                     args |-> <<request.start_date.s, request.end_date.s>>]>>)

\* the route as declared at lines 42-47 and 69-73: the required header of
\* the dependency (Header(...), line 20) is read first and the dependency
\* is called only when it is there; an HTTPException of the dependency ends
\* the request; then the body is validated; the endpoint runs when nothing
\* was wrong
post_ingest_boe(ML_ADMIN_API_KEY, x_api_key, body) ==
    LET verified == verify_api_key(ML_ADMIN_API_KEY, x_api_key)
    IN IF x_api_key = Missing THEN Response(422, <<>>)
       ELSE IF verified.raised THEN verified.v
       ELSE IF ~IngestRequest(body) THEN Response(422, <<>>)
       ELSE trigger_boe_ingestion(body)

(***************************************************************************)
(* SpecTrigger: one request to POST /admin/ingest-boe                      *)
(***************************************************************************)
\* os.getenv("ML_ADMIN_API_KEY"): unset, empty, or the key
ConfiguredKeys == {Null, Str(""), Str("my-secret-test-key-123")}
HeaderValues ==
    {Missing, Str(""), Str("my-secret-test-key-123"), Str("this-is-the-wrong-key")}
BodyFields == {Missing} \cup {Str(d) : d \in DateInputs}
TriggerRequests ==
    {[ML_ADMIN_API_KEY |-> k, x_api_key |-> h,
      body |-> [start_date |-> s, end_date |-> e]] :
        k \in ConfiguredKeys, h \in HeaderValues, s \in BodyFields, e \in BodyFields}

TriggerInit ==
    /\ OrchIdle
    /\ chat = NoChat
    /\ leafRet = NotCalled
    /\ leafOp = "post_ingest_boe"
    /\ leafArg \in TriggerRequests

CallPostIngestBoe ==
    /\ leafOp = "post_ingest_boe" /\ leafRet = NotCalled
    /\ leafRet' = Returned([raised |-> FALSE,
                            v |-> post_ingest_boe(leafArg.ML_ADMIN_API_KEY,
                                                  leafArg.x_api_key, leafArg.body)])
    /\ UNCHANGED <<leafOp, leafArg, chat>>
    /\ UNCHANGED orchVars

TriggerNext == CallPostIngestBoe

SpecTrigger == TriggerInit /\ [][TriggerNext]_vars

(***************************************************************************)
(* What the trigger claim speaks of                                        *)
(***************************************************************************)
TriggerCalled == leafOp = "post_ingest_boe" /\ leafRet.called
HeaderMissing == leafArg.x_api_key.t = "missing"
NoKeyConfigured ==
    \/ leafArg.ML_ADMIN_API_KEY.t = "null"
    \/ leafArg.ML_ADMIN_API_KEY.s = ""
WrongKey ==
    /\ ~HeaderMissing
    /\ ~NoKeyConfigured
    /\ leafArg.x_api_key.s # leafArg.ML_ADMIN_API_KEY.s
EightDigits(f) ==
    /\ f.t = "str"
    /\ Len(f.s) = 8
    /\ \A i \in 1..Len(f.s) :
          f.s[i] \in {"0", "1", "2", "3", "4", "5", "6", "7", "8", "9"}
BadBody ==
    ~(EightDigits(leafArg.body.start_date) /\ EightDigits(leafArg.body.end_date))
Enqueued == leafRet.v.background_tasks
StatusCode == leafRet.v.status_code

\* C26: the trigger schedules ingest_boe_data only for an authenticated,
\* well-formed request.  A request without the X-API-Key header (422), with
\* no key configured on the server (500), with a key different from the
\* configured one (403), or authenticated but with a body that lacks a date
\* or has one that is not 8 digits (422) enqueues nothing; any other request
\* is accepted and enqueues ingest_boe_data exactly once, with its start and
\* end dates.
C26_OnlyAuthenticatedWellFormedEnqueue ==
    TriggerCalled =>
        IF HeaderMissing \/ NoKeyConfigured \/ WrongKey \/ BadBody
        THEN /\ Enqueued = <<>>
             /\ HeaderMissing => StatusCode = 422
             /\ (~HeaderMissing /\ NoKeyConfigured) => StatusCode = 500
             /\ WrongKey => StatusCode = 403
             /\ (~HeaderMissing /\ ~NoKeyConfigured /\ ~WrongKey) => StatusCode = 422
        ELSE /\ StatusCode = 200
             /\ Enqueued = <<[func |-> "ingest_boe_data",
                              args |-> <<leafArg.body.start_date.s,
                                         leafArg.body.end_date.s>>]>>

\* an accepted request: the task is enqueued once with the two dates
C26_Witness ==
    /\ TriggerCalled
    /\ StatusCode = 200
    /\ Len(Enqueued) = 1
    /\ Enqueued[1].args = <<leafArg.body.start_date.s, leafArg.body.end_date.s>>

(***************************************************************************)
(* Claims on the sweep of the dates (Spec)                                 *)
(***************************************************************************)
\* the dates whose manifest the run has asked for, in the order of asking
Queried ==
    LET gets == SelectSeq(TheRun.trace, LAMBDA e : e.ev = "get_summary")
    IN [i \in DOMAIN gets |-> gets[i].date]
\* an 8-digit date string as one number
Key8(s) ==
    DigitVal(s[1]) * 10000000 + DigitVal(s[2]) * 1000000 + DigitVal(s[3]) * 100000
    + DigitVal(s[4]) * 10000 + DigitVal(s[5]) * 1000 + DigitVal(s[6]) * 100
    + DigitVal(s[7]) * 10 + DigitVal(s[8])
\* the number is the YYYYMMDD of a calendar date
CalendarKey(k) ==
    LET y == k \div 10000
        m == (k \div 100) % 100
        d == k % 100
        leap == (y % 4 = 0 /\ y % 100 # 0) \/ y % 400 = 0
        days == IF m = 2 THEN (IF leap THEN 29 ELSE 28)
                ELSE IF m \in {4, 6, 9, 11} THEN 30 ELSE 31
    IN y >= 1 /\ m \in 1..12 /\ d \in 1..days
\* b is the calendar day after a
DayAfter(a, b) ==
    /\ Key8(a) < Key8(b)
    /\ \A k \in (Key8(a) + 1)..(Key8(b) - 1) : ~CalendarKey(k)
\* a run over parseable bounds with start_date <= end_date
SweepRun ==
    /\ TheRun.pc # "idle"
    /\ dates_valid(TheRun.start_date_str, TheRun.end_date_str)
    /\ DayKey(TheRun.start_date_str) <= DayKey(TheRun.end_date_str)
Waiting == TheRun.pc \in {"await_summary", "await_xml"}

\* what a sweep has asked for so far: calendar dates, from start_date on,
\* one day after the other, none after end_date; all of them up to end_date
\* when the loop has ended
SweepInOrder ==
    (SweepRun /\ TheRun.how # "exception") =>
        /\ Queried # <<>>
        /\ \A i \in DOMAIN Queried :
              /\ IsYYYYMMDD(Queried[i])
              /\ Key8(Queried[i]) <= DayKey(TheRun.end_date_str)
        /\ Key8(Queried[1]) = DayKey(TheRun.start_date_str)
        /\ \A i \in 1..(Len(Queried) - 1) : DayAfter(Queried[i], Queried[i + 1])
        /\ TheRun.pc = "done" =>
              /\ TheRun.how = "end"
              /\ Key8(Queried[Len(Queried)]) = DayKey(TheRun.end_date_str)

\* where the run is in its sweep, as numbers that grow: the date of the
\* cursor, then whether the manifest of that date has been answered, then
\* the position in its identifiers
CursorKey(r) == r.current_date.y * 10000 + r.current_date.m * 100 + r.current_date.d
Further(r1, r2) ==
    \/ CursorKey(r1) < CursorKey(r2)
    \/ /\ CursorKey(r1) = CursorKey(r2)
       /\ r1.pc = "await_summary" /\ r2.pc = "await_xml"
    \/ /\ CursorKey(r1) = CursorKey(r2)
       /\ r1.pc = "await_xml" /\ r2.pc = "await_xml"
       /\ r1.doc_ids = r2.doc_ids /\ r1.idx < r2.idx
\* every answer of the source moves a sweep further or ends it, and a
\* waiting sweep is neither past end_date nor past its identifiers
SweepAdvances ==
    (SweepRun /\ Waiting /\ task' # task /\ task'["task1"].pc # "crashed") =>
        /\ CursorKey(TheRun) <= DayKey(TheRun.end_date_str)
        /\ TheRun.pc = "await_xml" => TheRun.idx \in 1..Len(TheRun.doc_ids)
        /\ \/ task'["task1"].pc = "done"
           \/ /\ task'["task1"].pc \in {"await_summary", "await_xml"}
              /\ task'["task1"].start_date_str = TheRun.start_date_str
              /\ task'["task1"].end_date_str = TheRun.end_date_str
              /\ Further(TheRun, task'["task1"])

\* C27: for parseable bounds with start_date <= end_date and leaf
\* operations that return, the run asks for the manifest of every calendar
\* date from start_date to end_date inclusive exactly once, in ascending
\* order, moving on by one day whatever the outcome of the day, and then
\* terminates: each answer of the source moves the sweep further towards
\* end_date or ends the run, so the run ends after finitely many answers.
C27_EveryDateOnceThenEnds ==
    /\ []SweepInOrder
    /\ [][SweepAdvances]_vars

\* a run over both days has ended, although the first day gave a document
\* whose content could not be used
C27_Witness ==
    /\ SweepRun
    /\ TheRun.pc = "done" /\ TheRun.how = "end"
    /\ Len(Queried) = NumDays
    /\ \E i \in DOMAIN TheRun.trace : TheRun.trace[i].ev = "get_xml"
    /\ OUTPUT_FILE = <<>>

\* the source has no usable content for the identifier: no content at all,
\* or a document without text
Unusable(id) == source_xml[id] \in {Http(404), HttpText(NoTextDocument)}
\* the identifier whose content the run is waiting for
Awaited == TheRun.doc_ids[TheRun.idx]
\* what the step adds to the trace of the run
Added == SubSeq(task'["task1"].trace, Len(TheRun.trace) + 1,
                Len(task'["task1"].trace))
\* the positions after the awaited one whose identifier is not in the
\* in-memory set
LaterNew ==
    {j \in (TheRun.idx + 1)..Len(TheRun.doc_ids) :
        TheRun.doc_ids[j] \notin TheRun.existing_ids}

\* the answer for an identifier without usable content: nothing is written
\* or remembered, the content is not asked for again, and the run goes on
\* to the next identifier of the date that is not known, if there is one
SkipsUnusable ==
    ( /\ TheRun.pc = "await_xml"
      /\ Unusable(Awaited)
      /\ task' # task
      /\ task'["task1"].pc # "crashed" ) =>
        /\ OUTPUT_FILE' = OUTPUT_FILE
        /\ PROCESSED_IDS_FILE' = PROCESSED_IDS_FILE
        /\ task'["task1"].existing_ids = TheRun.existing_ids
        /\ \A i \in DOMAIN Added : Added[i] # GetXml(Awaited)
        /\ IF LaterNew # {}
           THEN /\ task'["task1"].pc = "await_xml"
                /\ task'["task1"].current_date = TheRun.current_date
                /\ task'["task1"].doc_ids = TheRun.doc_ids
                /\ task'["task1"].idx = CHOOSE j \in LaterNew : \A k \in LaterNew : j <= k
                /\ Added = <<GetXml(TheRun.doc_ids[task'["task1"].idx])>>
           ELSE task'["task1"].pc \in {"await_summary", "done"}

\* an identifier without usable content is in no RawDocument, in no line of
\* the cache and not in the in-memory set, and within one date its content is
\* asked for once
NeverKept ==
    /\ \A id \in Ids :
          Unusable(id) =>
             /\ id \notin RawIds(1, Len(OUTPUT_FILE))
             /\ id \notin file_ids(PROCESSED_IDS_FILE)
             /\ id \notin TheRun.existing_ids
    /\ \A i, j \in DOMAIN TheRun.trace :
          ( /\ i < j
            /\ TheRun.trace[i].ev = "get_xml"
            /\ TheRun.trace[j] = TheRun.trace[i]
            /\ Unusable(TheRun.trace[i].id) ) =>
               \E k \in (i + 1)..(j - 1) : TheRun.trace[k].ev = "get_summary"

\* C28: when the content of an identifier is absent or its extracted text
\* is empty, the orchestrator fetches that content once for that manifest
\* entry, with no retry, writes no RawDocument, records nothing in the
\* identifier cache, does not add the identifier to the in-memory set (so a
\* later run tries it again), and goes on to the next identifier of the
\* same date.
C28_UnusableContentSkipped ==
    /\ []NeverKept
    /\ [][SkipsUnusable]_vars

\* a second run asks again for the content of an identifier that the first
\* run had to skip
C28_Witness ==
    /\ runs = 2
    /\ \E i \in DOMAIN TheRun.trace :
          /\ TheRun.trace[i].ev = "get_xml"
          /\ Unusable(TheRun.trace[i].id)
          /\ TheRun.trace[i].id \notin TheRun.cached_at_start
    /\ TheRun.pc = "done"

\* C29: within one run an identifier is persisted at most once.  Once its
\* RawDocument has been written the identifier is in the in-memory set
\* whenever the run looks at another identifier, so when it appears again
\* in the manifest of a later date of the range its content is not fetched
\* and no RawDocument is written for it again.
C29_PersistedAtMostOncePerRun ==
    LET trace == TheRun.trace
    IN \A i \in DOMAIN trace :
          trace[i].ev = "wrote_raw" =>
             /\ TheRun.pc # "crashed" => trace[i].id \in TheRun.existing_ids
             /\ \A j \in (i + 1)..Len(trace) :
                   /\ trace[j] # GetXml(trace[i].id)
                   /\ trace[j] # WroteRaw(trace[i].id)

\* an identifier persisted on the first date is listed again by the manifest
\* of the second date, which the run has asked for
C29_Witness ==
    LET trace == TheRun.trace
    IN /\ TheRun.pc = "done"
       /\ \E i, j \in DOMAIN trace :
             /\ i < j
             /\ trace[i].ev = "wrote_raw"
             /\ trace[j].ev = "get_summary"
             /\ source_manifest[trace[j].date] \in
                   {HttpJson(Manifest({trace[i].id})), HttpJson(Manifest(Ids))}

\* the identifiers for which the run wrote the RawDocument and the cache line
PersistedAndRecorded ==
    {TheRun.trace[i].id : i \in {k \in DOMAIN TheRun.trace :
        /\ TheRun.trace[k].ev = "wrote_raw"
        /\ k < Len(TheRun.trace)
        /\ TheRun.trace[k + 1] = WroteId(TheRun.trace[k].id)}}

\* the source has text for the identifier
Usable(id) ==
    LET xml_content == fetch_document_xml(source_xml[id])
    IN /\ ~xml_content.raised
       /\ xml_content.v # None
       /\ ~xml_content.v.empty
       /\ parse_legal_text(xml_content.v) # <<>>

\* every append of the run was made: the cache was loaded whole, and each
\* fetch of a text was followed by its RawDocument and its cache line
EveryAppendMade ==
    /\ FilesWorked("task1")
    /\ \A i \in DOMAIN TheRun.trace :
          (TheRun.trace[i].ev = "get_xml" /\ Usable(TheRun.trace[i].id)) =>
             /\ i + 2 <= Len(TheRun.trace)
             /\ TheRun.trace[i + 1] = WroteRaw(TheRun.trace[i].id)
             /\ TheRun.trace[i + 2] = WroteId(TheRun.trace[i].id)

\* C30: on every exit path the summary's total of newly processed documents
\* is the number of identifiers for which this run wrote a RawDocument and
\* recorded the identifier (identifiers skipped for absent content or empty
\* text are not counted, documents persisted on a day that an exception
\* interrupted are), and its total of known identifiers is the size of the
\* union of the set loaded at the start and the identifiers this run
\* recorded.  (Stated for the runs in which no append failed.)
C30_SummaryCountsPersisted ==
    (TheRun.pc = "done" /\ EveryAppendMade) =>
        LET last == TheRun.trace[Len(TheRun.trace)]
        IN /\ last.ev = "summary"
           /\ last.total = Cardinality(PersistedAndRecorded)
           /\ last.known = Cardinality(TheRun.cached_at_start \cup PersistedAndRecorded)

====
